---- MODULE Spec2Model ----
(***************************************************************************)
(* BaselineX: the probe / validate / baseline engine.                      *)
(*                                                                         *)
(* State: the SQLite tables (apis, endpoints, probes, baselines), the wall *)
(* clock that stamps rows with second resolution, and the position and     *)
(* locals of startTask while a run is in progress.                         *)
(***************************************************************************)
EXTENDS Integers, Sequences, FiniteSets, TLC

(***************************************************************************)
(* Bounds of the model.                                                    *)
(***************************************************************************)
MaxProbes == 3
MaxClock == 1
MaxRequired == 2

(***************************************************************************)
(* Values.                                                                 *)
(***************************************************************************)
\* a JavaScript property that is absent (string-valued positions)
undefined == "undefined"
\* ProbeTaskResult.statusCode when the property is absent
undefinedStatus == -1

Range(s) == {s[i] : i \in DOMAIN s}

\* Array.prototype.includes
Includes(arr, x) == \E i \in DOMAIN arr : arr[i] = x

\* a filter with the test inverted: keeps the elements that are in other
FilterNotIn_Inverted(arr, other) ==
    LET keep(x) == Includes(other, x)
    IN SelectSeq(arr, keep)

\* Array.prototype.filter keeping the elements that are not in other
FilterNotIn(arr, other) ==
    LET keep(x) == ~Includes(other, x)
    IN SelectSeq(arr, keep)

\* JavaScript truthiness of an optional string
Truthy(s) == s # undefined /\ s # ""

\* the value SQLite/JavaScript return for "no row"
null == [id |-> 0]

(***************************************************************************)
(* Parsed JSON.  An object is a sequence of key/value pairs in insertion   *)
(* order; an array is a sequence of items; a scalar carries no keys.       *)
(***************************************************************************)
NoData == [type |-> "undefined", props |-> <<>>, items |-> <<>>]
JsonObject(props) == [type |-> "object", props |-> props, items |-> <<>>]
JsonArray(items) == [type |-> "array", props |-> <<>>, items |-> items]
JsonScalar == [type |-> "scalar", props |-> <<>>, items |-> <<>>]

\* Object.keys of a sequence of key/value pairs
ObjectKeys(props) == [i \in DOMAIN props |-> props[i].k]

\* append the elements of more that are not yet in acc (Set.add in a loop)
RECURSIVE AddAll(_, _)
AddAll(acc, more) ==
    IF more = <<>> THEN acc
    ELSE AddAll(IF Includes(acc, Head(more)) THEN acc ELSE Append(acc, Head(more)),
                Tail(more))

\* Object.keys of an array: its indices "0", "1", ...
IndexKeys(items) ==
    [i \in DOMAIN items |-> <<"0", "1", "2", "3">>[i]]

\* the key set of an array response: the keys of every item with
\* typeof item === "object" && item !== null, which an array item satisfies too
RECURSIVE ArrayKeys(_)
ArrayKeys(items) ==
    IF items = <<>> THEN <<>>
    ELSE LET rest == ArrayKeys([i \in 1..(Len(items) - 1) |-> items[i]])
             last == items[Len(items)]
         IN IF last.type = "object" THEN AddAll(rest, ObjectKeys(last.props))
            ELSE IF last.type = "array" THEN AddAll(rest, IndexKeys(last.items))
            ELSE rest

\* contentType?.includes("application/json")
IsJsonContentType(contentType) ==
    contentType \in {"application/json", "application/json; charset=utf-8"}

\* latencyMs < 200 ? "fast" : "slow"
LatencyBucketOf(latencyMs) == IF latencyMs < 200 THEN "fast" ELSE "slow"

(***************************************************************************)
(* probeEndpoint: one request, classified.  The network event ev is either *)
(* a completed response, the abort of the deadline, a refused connection   *)
(* or any other fault; only the last one is re-thrown.                     *)
(***************************************************************************)
ProbeEndpoint(ev) ==
    CASE ev.kind = "response" ->
           [thrown |-> FALSE,
            statusCode |-> ev.statusCode,
            responseType |-> IF ev.contentType = undefined THEN "no content-type"
                             ELSE ev.contentType,
            hasBody |-> IsJsonContentType(ev.contentType)
                        /\ ev.json.type \in {"object", "array"},
            body |-> IF ~IsJsonContentType(ev.contentType) THEN <<>>
                     ELSE IF ev.json.type = "array" THEN ArrayKeys(ev.json.items)
                     ELSE IF ev.json.type = "object" THEN ObjectKeys(ev.json.props)
                     ELSE <<>>,
            latencyBucket |-> LatencyBucketOf(ev.latencyMs),
            data |-> IF IsJsonContentType(ev.contentType) THEN ev.json ELSE NoData,
            error |-> undefined,
            isApiError |-> FALSE,
            isConnectionError |-> FALSE]
      [] ev.kind = "AbortError" ->
           [thrown |-> FALSE, statusCode |-> 0, responseType |-> "error",
            hasBody |-> FALSE, body |-> <<>>, latencyBucket |-> "timeout",
            data |-> NoData, error |-> "Request timeout",
            isApiError |-> TRUE, isConnectionError |-> FALSE]
      [] ev.kind = "ECONNREFUSED" ->
           [thrown |-> FALSE, statusCode |-> 0, responseType |-> "error",
            hasBody |-> FALSE, body |-> <<>>, latencyBucket |-> "error",
            data |-> NoData, error |-> "Connection refused - API unavailable",
            isApiError |-> TRUE, isConnectionError |-> TRUE]
      [] OTHER ->
           [thrown |-> TRUE, statusCode |-> undefinedStatus, responseType |-> undefined,
            hasBody |-> FALSE, body |-> <<>>, latencyBucket |-> undefined,
            data |-> NoData, error |-> ev.message,
            isApiError |-> FALSE, isConnectionError |-> FALSE]

(***************************************************************************)
(* probeHandler: turns the outcome of probeEndpoint into a ProbeTaskResult.*)
(* An API error is returned with its message under error_message; a thrown *)
(* fault is caught and returned with its message under error.              *)
(***************************************************************************)
ProbeHandler(api_name, endpoint, ev) ==
    LET result == ProbeEndpoint(ev)
    IN IF result.thrown
       THEN [api_name |-> api_name, endpoint |-> endpoint.path, method |-> endpoint.method,
             statusCode |-> undefinedStatus, fields |-> <<>>,
             error |-> result.error, error_message |-> undefined,
             responseType |-> "error", latencyBucket |-> "timeout", data |-> NoData]
       ELSE IF result.isApiError
       THEN [api_name |-> api_name, endpoint |-> endpoint.path, method |-> endpoint.method,
             statusCode |-> result.statusCode, fields |-> result.body,
             error |-> undefined, error_message |-> result.error,
             responseType |-> IF Truthy(result.responseType) THEN result.responseType
                              ELSE "error",
             latencyBucket |-> result.latencyBucket, data |-> NoData]
       ELSE [api_name |-> api_name, endpoint |-> endpoint.path, method |-> endpoint.method,
             statusCode |-> result.statusCode, fields |-> result.body,
             error |-> undefined, error_message |-> undefined,
             responseType |-> result.responseType,
             latencyBucket |-> result.latencyBucket, data |-> result.data]

(***************************************************************************)
(* JavaScript values found in a response body: their type, their String()  *)
(* form and their JSON.stringify form.                                     *)
(***************************************************************************)
JsTruthy(v) ==
    /\ v.t \notin {"undefined", "null"}
    /\ ~(v.t = "string" /\ v.str = "")
    /\ ~(v.t = "number" /\ v.str = "0")
    /\ ~(v.t = "boolean" /\ v.str = "false")

NoMessage == [t |-> "undefined", str |-> undefined]

\* data.key of a parsed body, typed; undefined for a missing key and for arrays/scalars
PropValue(data, key) ==
    IF data.type = "object" /\ \E i \in DOMAIN data.props : data.props[i].k = key
    THEN (data.props[CHOOSE i \in DOMAIN data.props : data.props[i].k = key]).v
    ELSE [t |-> "undefined", str |-> undefined, json |-> undefined]

Num42 == [t |-> "number", str |-> "42", json |-> "42"]
StrAda == [t |-> "string", str |-> "Ada", json |-> "\"Ada\""]
StrNotFound == [t |-> "string", str |-> "not found", json |-> "\"not found\""]
ObjCode == [t |-> "object", str |-> "[object Object]", json |-> "{\"code\":7}"]

(***************************************************************************)
(* Property access on JavaScript values.  data[path] finds the own         *)
(* properties of the value and the properties it inherits: every object,   *)
(* array, number, string and boolean inherits those of Object.prototype,   *)
(* and an array has its length.                                            *)
(***************************************************************************)
JsUndefined == [t |-> "undefined", str |-> undefined, json |-> undefined]

\* names every value inherits from Object.prototype (those a configuration
\* of the model may mention)
ObjectPrototypeKeys == {"constructor", "toString", "valueOf"}

\* the inherited member: a function, whose String() form is its source text
InheritedMember(key) ==
    [t |-> "function",
     str |-> "function " \o (IF key = "constructor" THEN "Object" ELSE key)
                         \o "() { [native code] }",
     json |-> undefined]

\* the decimal form of a small array length
LengthValue(n) ==
    LET digits == <<"0", "1", "2", "3", "4", "5", "6", "7", "8", "9">>
        d == digits[(n % 10) + 1]
    IN [t |-> "number", str |-> d, json |-> d]

\* data[path] of a parsed body.  Index keys of arrays ("0", "1", ...) are not
\* among the paths the configurations of the model use.
GetProperty(data, path) ==
    IF data.type = "object" /\ \E i \in DOMAIN data.props : data.props[i].k = path
    THEN (data.props[CHOOSE i \in DOMAIN data.props : data.props[i].k = path]).v
    ELSE IF data.type = "array" /\ path = "length" THEN LengthValue(Len(data.items))
    ELSE IF data.type # "undefined" /\ path \in ObjectPrototypeKeys
    THEN InheritedMember(path)
    ELSE JsUndefined

(***************************************************************************)
(* Strings that may hold placeholders.  Such a string is the sequence of   *)
(* its pieces: a literal piece of text, or a match of /\{\{([^}]+)\}\}/,   *)
(* i.e. {{name}}.  Adjacent literal pieces are one piece.                  *)
(***************************************************************************)
Lit(s) == [ph |-> FALSE, s |-> s]
Placeholder(name) == [ph |-> TRUE, s |-> name]

\* the string with adjacent literal pieces joined
RECURSIVE Join(_)
Join(pieces) ==
    IF Len(pieces) < 2 THEN pieces
    ELSE LET h == Head(pieces)
             rest == Join(Tail(pieces))
         IN IF ~h.ph /\ ~Head(rest).ph
            THEN <<Lit(h.s \o Head(rest).s)>> \o Tail(rest)
            ELSE <<h>> \o rest

(***************************************************************************)
(* The variable table of a run: a plain object ({}), modelled by the       *)
(* function from its own keys to their values.                             *)
(***************************************************************************)
\* variables[key]: the own property, else what {} inherits
LookupVariable(variables, key) ==
    IF key \in DOMAIN variables THEN variables[key]
    ELSE IF key \in ObjectPrototypeKeys THEN InheritedMember(key)
    ELSE JsUndefined

\* replaceVariables on a string:
\*   variables[key] !== undefined ? String(variables[key]) : match
ReplaceVariables(target, variables) ==
    Join([i \in DOMAIN target |->
            IF target[i].ph /\ LookupVariable(variables, target[i].s).t # "undefined"
            THEN Lit(LookupVariable(variables, target[i].s).str)
            ELSE target[i]])

(***************************************************************************)
(* The values of a request fixture, as js-yaml loads them: a string (the   *)
(* sequence of its pieces), a number (NaN and the infinities included), a  *)
(* boolean, null, a Date (a YAML timestamp), an array or an object.        *)
(***************************************************************************)
Text(pieces) == [t |-> "string", pieces |-> pieces]
DateValue(iso) == [t |-> "date", iso |-> iso]
ArrayValue(items) == [t |-> "array", items |-> items]
ObjectValue(props) == [t |-> "object", props |-> props]
NonFinite == {"NaN", "Infinity", "-Infinity"}

\* JSON.parse(JSON.stringify(value)): a number that is not finite comes back
\* as null, a Date as the string of its toJSON(), everything else as it was
RECURSIVE JsonClone(_)
JsonClone(value) ==
    CASE value.t = "number" ->
           IF value.str \in NonFinite
           THEN [t |-> "null", str |-> "null", json |-> "null"]
           ELSE value
      [] value.t = "date" -> Text(<<Lit(value.iso)>>)
      [] value.t = "array" ->
           ArrayValue([i \in DOMAIN value.items |-> JsonClone(value.items[i])])
      [] value.t = "object" ->
           ObjectValue([i \in DOMAIN value.props |->
                          [k |-> value.props[i].k, v |-> JsonClone(value.props[i].v)]])
      [] OTHER -> value

\* replaceVariables on any value: a string is replaced, an array item by item,
\* an object key by key, anything else is returned as it is
RECURSIVE ReplaceVariablesInValue(_, _)
ReplaceVariablesInValue(target, variables) ==
    CASE target.t = "string" -> Text(ReplaceVariables(target.pieces, variables))
      [] target.t = "array" ->
           ArrayValue([i \in DOMAIN target.items |->
                         ReplaceVariablesInValue(target.items[i], variables)])
      [] target.t = "object" ->
           ObjectValue([i \in DOMAIN target.props |->
                          [k |-> target.props[i].k,
                           v |-> ReplaceVariablesInValue(target.props[i].v, variables)]])
      [] OTHER -> target

\* replaceVariables on a fixture (the object of its properties): key by key
ReplaceVariablesInObject(target, variables) ==
    ReplaceVariablesInValue(ObjectValue(target), variables).props

\* const clone = JSON.parse(JSON.stringify(endpoint)): path, method, the
\* expectations and the stash hold strings and finite integers and come back
\* as they were; the fixtures hold any value
JsonCloneEndpoint(endpoint) ==
    [endpoint EXCEPT
        !.request = [fixture |->
            [body |-> JsonClone(ObjectValue(endpoint.request.fixture.body)).props,
             query |-> JsonClone(ObjectValue(endpoint.request.fixture.query)).props]]]

\* a resolver that resolves the path and leaves the fixtures as declared
ResolveEndpointVariables_PathOnly(endpoint, variables) ==
    [endpoint EXCEPT !.path = ReplaceVariables(endpoint.path, variables)]

\* resolveEndpointVariables: a clone of the endpoint with path, body fixture
\* and query fixture resolved; everything else as the clone has it
ResolveEndpointVariables(endpoint, variables) ==
    LET clone == JsonCloneEndpoint(endpoint)
    IN [clone EXCEPT
          !.path = ReplaceVariables(clone.path, variables),
          !.request = [fixture |->
              [body |-> ReplaceVariablesInObject(clone.request.fixture.body, variables),
               query |-> ReplaceVariablesInObject(clone.request.fixture.query,
                                                  variables)]]]

\* variables[varName] = value
SetVariable(variables, varName, value) ==
    [n \in DOMAIN variables \cup {varName} |->
        IF n = varName THEN value ELSE variables[n]]

\* updateVariables: for each [varName, path] of Object.entries(stash), in order
RECURSIVE UpdateVariables(_, _, _)
UpdateVariables(variables, data, stash) ==
    IF stash = <<>> THEN variables
    ELSE LET varName == Head(stash).varName
             value == GetProperty(data, Head(stash).path)
         IN UpdateVariables(IF value.t # "undefined"
                            THEN SetVariable(variables, varName, value)
                            ELSE variables,
                            data, Tail(stash))

\* validationResult.passed && endpoint.stash && probeResult.data.  An absent
\* stash and an empty one stash nothing alike; a parsed body is undefined, an
\* object, an array or a scalar (a falsy scalar stashes nothing, as a truthy
\* one without the requested property does).
StashGuard_IgnorePassed(validation, endpoint, result) ==
    endpoint.stash # <<>> /\ result.data.type # "undefined"

StashGuard(validation, endpoint, result) ==
    validation.passed /\ endpoint.stash # <<>> /\ result.data.type # "undefined"

(***************************************************************************)
(* The tables.  A table is the sequence of its rows in rowid order; ids    *)
(* are AUTOINCREMENT, so row i has id i as long as nothing is deleted.     *)
(***************************************************************************)
\* SELECT * FROM probes WHERE id = ?
GetProbeById(probeRows, id) ==
    IF \E i \in DOMAIN probeRows : probeRows[i].id = id
    THEN probeRows[CHOOSE i \in DOMAIN probeRows : probeRows[i].id = id]
    ELSE null

\* SELECT * FROM baselines WHERE api_id = ? AND endpoint_id = ?
\*   ORDER BY baseline_time DESC LIMIT 1
\* The set of rows the query may return: any row with the greatest
\* baseline_time (SQL leaves the order of equal keys open); {null} if none.
GetLatestBaseline(baselineRows, apiId, endpointId) ==
    LET rows == {b \in Range(baselineRows) :
                    b.api_id = apiId /\ b.endpoint_id = endpointId}
    IN IF rows = {} THEN {null}
       ELSE {b \in rows : \A c \in rows : c.baseline_time <= b.baseline_time}

\* getBaseline: the probe pinned by the latest baseline, or null
GetBaseline(probeRows, baselineRows, apiId, endpointId) ==
    {IF b = null THEN null ELSE GetProbeById(probeRows, b.probe_id) :
        b \in GetLatestBaseline(baselineRows, apiId, endpointId)}

(***************************************************************************)
(* validateProbeResponse, given the probe pinned by the latest baseline    *)
(* (or null).                                                              *)
(***************************************************************************)
NoBaselineComparison ==
    [exists |-> FALSE, statusCodeMatch |-> FALSE, responseType |-> FALSE,
     latencyBucket |-> FALSE, passed |-> FALSE]

\* Step 1: result.statusCode === 0 && result.error
IsConnectionErrorResult(result) == result.statusCode = 0 /\ Truthy(result.error)

\* an expectation check that tolerates added fields
ExpectationCheck_AllowAdded(result, resource) ==
    LET expectedFields == resource.expected_fields
        actualFields == result.fields
        new_fields == FilterNotIn(actualFields, expectedFields)
        removed_fields == FilterNotIn(expectedFields, actualFields)
    IN [statusCode |-> result.statusCode,
        expectedStatus |-> resource.expected_status,
        expectedFields |-> expectedFields,
        new_fields |-> new_fields,
        removed_fields |-> removed_fields,
        passed |-> /\ result.statusCode = resource.expected_status
                   /\ ~(Len(removed_fields) > 0)]

\* Step 2: the expectation check
ExpectationCheck(result, resource) ==
    LET expectedFields == resource.expected_fields
        actualFields == result.fields
        new_fields == FilterNotIn(actualFields, expectedFields)
        removed_fields == FilterNotIn(expectedFields, actualFields)
    IN [statusCode |-> result.statusCode,
        expectedStatus |-> resource.expected_status,
        expectedFields |-> expectedFields,
        new_fields |-> new_fields,
        removed_fields |-> removed_fields,
        passed |-> /\ result.statusCode = resource.expected_status
                   /\ ~(Len(new_fields) > 0 \/ Len(removed_fields) > 0)]

\* a baseline check in which the latency bucket decides as well
BaselineCheck_Latency(baseline, result) ==
    LET statusCodeMatch == baseline.status_code = result.statusCode
        responseType == baseline.response_type = result.responseType
        latencyBucket == baseline.latency_bucket = result.latencyBucket
    IN [exists |-> TRUE,
        statusCodeMatch |-> statusCodeMatch,
        responseType |-> responseType,
        latencyBucket |-> latencyBucket,
        passed |-> ~(~statusCodeMatch \/ ~responseType \/ ~latencyBucket)]

\* Step 3: the comparison against the pinned probe
BaselineCheck(baseline, result) ==
    LET statusCodeMatch == baseline.status_code = result.statusCode
        responseType == baseline.response_type = result.responseType
    IN [exists |-> TRUE,
        statusCodeMatch |-> statusCodeMatch,
        responseType |-> responseType,
        latencyBucket |-> baseline.latency_bucket = result.latencyBucket,
        passed |-> ~(~statusCodeMatch \/ ~responseType)]

\* the baseline is compared whenever it exists, whatever the expectation check said
BaselineEvaluated_Always(baseline, probeValidation) ==
    baseline # null

\* if (baseline && probeValidation.passed)
BaselineEvaluated(baseline, probeValidation) ==
    baseline # null /\ probeValidation.passed

\* the baseline comparison never overrides the expectation check
FinalPassed_ExpectationOnly(evaluated, probeValidation, baselineComparison) ==
    probeValidation.passed

\* let finalPassed = probeValidation.passed; ... finalPassed = baselineComparison.passed
FinalPassed(evaluated, probeValidation, baselineComparison) ==
    IF evaluated THEN baselineComparison.passed ELSE probeValidation.passed

\* the message taken from the body when the final result failed
DeriveErrorMessage(result, finalPassed) ==
    IF Truthy(result.error) THEN [t |-> "string", str |-> result.error]
    ELSE IF ~finalPassed /\ result.data.type \in {"object", "array"}
    THEN LET message == PropValue(result.data, "message")
             error == PropValue(result.data, "error")
         IN IF JsTruthy(message) THEN [t |-> message.t, str |-> message.str]
            ELSE IF JsTruthy(error)
            THEN [t |-> "string",
                  str |-> IF error.t = "string" THEN error.str ELSE error.json]
            ELSE NoMessage
    ELSE NoMessage

ValidateProbeResponse(baseline, result, resource) ==
    IF IsConnectionErrorResult(result)
    THEN [api_name |-> result.api_name, endpoint |-> result.endpoint,
          method |-> result.method,
          probeValidation |-> [statusCode |-> 0,
                               expectedStatus |-> resource.expected_status,
                               expectedFields |-> resource.expected_fields,
                               new_fields |-> <<>>, removed_fields |-> <<>>,
                               passed |-> FALSE],
          hasBaselineComparison |-> FALSE,
          baselineComparison |-> NoBaselineComparison,
          passed |-> FALSE,
          isConnectionError |-> TRUE,
          errorMessage |-> [t |-> "string", str |-> result.error]]
    ELSE LET probeValidation == ExpectationCheck(result, resource)
             evaluated == BaselineEvaluated(baseline, probeValidation)
             baselineComparison == IF evaluated THEN BaselineCheck(baseline, result)
                                   ELSE NoBaselineComparison
             finalPassed == FinalPassed(evaluated, probeValidation, baselineComparison)
         IN [api_name |-> result.api_name, endpoint |-> result.endpoint,
             method |-> result.method,
             probeValidation |-> probeValidation,
             hasBaselineComparison |-> TRUE,
             baselineComparison |-> baselineComparison,
             passed |-> finalPassed,
             isConnectionError |-> FALSE,
             errorMessage |-> DeriveErrorMessage(result, finalPassed)]

\* SELECT * FROM probes WHERE endpoint_id = ? ORDER BY probe_time DESC
\* The set of row sequences the query may return: every arrangement of the
\* endpoint's rows with non-increasing probe_time (probe_time has a resolution
\* of one second and SQL leaves the order of equal keys open).
GetProbesByEndpoint(probeRows, endpointId) ==
    LET rows == {r \in Range(probeRows) : r.endpoint_id = endpointId}
        n == Cardinality(rows)
    IN {s \in [1..n -> rows] :
          /\ \A i, j \in 1..n : i # j => s[i] # s[j]
          /\ \A i \in 1..n : \A j \in 1..n :
                i < j => s[i].probe_time >= s[j].probe_time}

\* a flag that records the outcome of the expectation check alone
ProbePassed_ExpectationLevel(validation) ==
    validation.probeValidation.passed

\* passed: validationResult.passed, stored as probe.passed ? 1 : 0
ProbePassed(validation) ==
    validation.passed

\* an insert with the two ids in each other's place
ProbeRow_SwappedIds(probeRows, apiId, endpointId, validation, result, now) ==
    [id |-> Len(probeRows) + 1,
     api_id |-> endpointId,
     endpoint_id |-> apiId,
     passed |-> validation.passed,
     status_code |-> IF result.statusCode = undefinedStatus THEN 0 ELSE result.statusCode,
     response_type |-> result.responseType,
     latency_bucket |-> result.latencyBucket,
     probe_time |-> now,
     error_message |-> IF Truthy(result.error) THEN result.error ELSE undefined]

\* insertProbeResult: the row appended to probes
ProbeRow(probeRows, apiId, endpointId, validation, result, now) ==
    [id |-> Len(probeRows) + 1,
     api_id |-> apiId,
     endpoint_id |-> endpointId,
     passed |-> ProbePassed(validation),
     status_code |-> IF result.statusCode = undefinedStatus THEN 0 ELSE result.statusCode,
     response_type |-> result.responseType,
     latency_bucket |-> result.latencyBucket,
     probe_time |-> now,
     error_message |-> IF Truthy(result.error) THEN result.error ELSE undefined]

(***************************************************************************)
(* checkAndCreateBaseline, given what its two queries returned: existing   *)
(* (getLatestBaseline) and allProbes (getProbesByEndpoint).  The result    *)
(* says whether a row is inserted and which record is returned.            *)
(***************************************************************************)
RecentProbes(allProbes, requiredSuccessfulProbes) ==
    SubSeq(allProbes, 1, IF Len(allProbes) < requiredSuccessfulProbes
                         THEN Len(allProbes) ELSE requiredSuccessfulProbes)

\* a manager that does not look for an existing baseline first
CheckAndCreateBaseline_NoExisting(existing, allProbes, baselineRows, apiId, endpointId, required, now) ==
    LET recentProbes == RecentProbes(allProbes, required)
    IN IF Len(recentProbes) < required THEN [created |-> FALSE, baseline |-> null]
       ELSE IF ~(\A i \in DOMAIN recentProbes : recentProbes[i].passed)
       THEN [created |-> FALSE, baseline |-> null]
       ELSE [created |-> TRUE,
             baseline |-> [id |-> Len(baselineRows) + 1,
                           api_id |-> apiId,
                           endpoint_id |-> endpointId,
                           probe_id |-> recentProbes[1].id,
                           baseline_time |-> now]]

CheckAndCreateBaseline(existing, allProbes, baselineRows, apiId, endpointId, required, now) ==
    LET requiredSuccessfulProbes == required
        recentProbes == RecentProbes(allProbes, requiredSuccessfulProbes)
    IN IF existing # null THEN [created |-> FALSE, baseline |-> existing]
       ELSE IF Len(allProbes) = 0 THEN [created |-> FALSE, baseline |-> null]
       ELSE IF Len(recentProbes) < requiredSuccessfulProbes
       THEN [created |-> FALSE, baseline |-> null]
       ELSE IF ~(\A i \in DOMAIN recentProbes : recentProbes[i].passed)
       THEN [created |-> FALSE, baseline |-> null]
       ELSE [created |-> TRUE,
             baseline |-> [id |-> Len(baselineRows) + 1,
                           api_id |-> apiId,
                           endpoint_id |-> endpointId,
                           probe_id |-> recentProbes[1].id,
                           baseline_time |-> now]]

(***************************************************************************)
(* Configuration: the resources a run is started with and what the network *)
(* may answer to one request.                                              *)
(***************************************************************************)
\* an endpoint without a request fixture
NoRequest == [fixture |-> [body |-> <<>>, query |-> <<>>]]

GetUsers == [path |-> <<Lit("/users")>>, method |-> "GET", expected_status |-> 200,
             expected_fields |-> <<>>, stash |-> <<>>, request |-> NoRequest]
GetPosts == [path |-> <<Lit("/posts")>>, method |-> "GET", expected_status |-> 200,
             expected_fields |-> <<>>, stash |-> <<>>, request |-> NoRequest]

\* an endpoint that stashes the id of its response as userId
GetMe == [path |-> <<Lit("/me")>>, method |-> "GET", expected_status |-> 200,
          expected_fields |-> <<"id">>,
          stash |-> <<[varName |-> "userId", path |-> "id"]>>,
          request |-> NoRequest]

\* endpoints that use {{userId}}: in the path, and in the query and body fixtures
GetUserById == [path |-> <<Lit("/users/"), Placeholder("userId")>>, method |-> "GET",
                expected_status |-> 200, expected_fields |-> <<>>, stash |-> <<>>,
                request |-> NoRequest]
CreatePost == [path |-> <<Lit("/posts")>>, method |-> "POST",
               expected_status |-> 200, expected_fields |-> <<>>, stash |-> <<>>,
               request |-> [fixture |->
                   [body |-> <<[k |-> "author", v |-> Text(<<Placeholder("userId")>>)]>>,
                    query |-> <<[k |-> "as",
                                 v |-> Text(<<Lit("u"), Placeholder("userId")>>)]>>]]]

Api(name, disabled, endpoints) ==
    [name |-> name, base_url |-> "http://localhost:3001", disabled |-> disabled,
     endpoints |-> endpoints]

\* HttpMethodSchema
HttpMethodSchema == {"GET", "POST", "PUT", "PATCH", "DELETE", "HEAD", "OPTIONS"}

\* ApiEndpointWithConstraintsSchema: a non-empty path, a known method, a status
\* in 100..599, non-empty field names, and a body fixture for POST, PUT, PATCH
ApiEndpointSchema(endpoint) ==
    /\ endpoint.path # <<>>
    /\ \A i \in DOMAIN endpoint.path : endpoint.path[i].s # ""
    /\ endpoint.method \in HttpMethodSchema
    /\ endpoint.expected_status \in 100..599
    /\ \A i \in DOMAIN endpoint.expected_fields : endpoint.expected_fields[i] # ""
    /\ endpoint.method \in {"POST", "PUT", "PATCH"}
       => endpoint.request.fixture.body # <<>>

\* ApiSchema: a name, a base URL and at least one endpoint
ApiSchema(api) ==
    /\ api.name # ""
    /\ api.base_url # ""
    /\ api.disabled \in BOOLEAN
    /\ Len(api.endpoints) >= 1
    /\ \A i \in DOMAIN api.endpoints : ApiEndpointSchema(api.endpoints[i])

\* ResourcesSchema: at least one API, every API accepted, no API name twice;
\* what the loader accepts and hands to startTask
ResourcesSchema(cfg) ==
    /\ Len(cfg.apis) >= 1
    /\ \A i \in DOMAIN cfg.apis : ApiSchema(cfg.apis[i])
    /\ \A i, j \in DOMAIN cfg.apis : cfg.apis[i].name = cfg.apis[j].name => i = j

ResourcesConfigs ==
    {[apis |-> <<Api("users", FALSE, <<GetUsers>>)>>],
     [apis |-> <<Api("users", FALSE, <<GetUsers, GetPosts>>)>>],
     [apis |-> <<Api("users", FALSE, <<GetMe, GetUserById>>),
                 Api("legacy", TRUE, <<GetPosts>>),
                 Api("posts", FALSE, <<CreatePost>>)>>]}

Response(statusCode, contentType, json, latencyMs) ==
    [kind |-> "response", statusCode |-> statusCode, contentType |-> contentType,
     json |-> json, latencyMs |-> latencyMs, message |-> undefined]
Fault(kind, message) ==
    [kind |-> kind, statusCode |-> 0, contentType |-> undefined,
     json |-> NoData, latencyMs |-> 0, message |-> message]

ErrorBody ==
    JsonObject(<<[k |-> "error",
                  v |-> [t |-> "string", str |-> "boom", json |-> "\"boom\""]]>>)

NetworkEvents ==
    {Response(200, "application/json", JsonObject(<<>>), 100),
     Response(200, "application/json", JsonObject(<<[k |-> "id", v |-> Num42]>>), 100),
     Response(200, "text/html", NoData, 100),
     Response(500, "application/json", ErrorBody, 100),
     Fault("AbortError", "This operation was aborted"),
     Fault("ECONNREFUSED", "connect ECONNREFUSED 127.0.0.1:3001"),
     Fault("other", "fetch failed")}

(***************************************************************************)
(* preHandleEndpoints: insertOrGetApi, then getEndpoint / insertEndpoint   *)
(* for every declared endpoint; returns the tables and the lookup.         *)
(***************************************************************************)
\* an insert without the lookup by name
InsertOrGetApi_AlwaysInsert(apiRows, api) ==
    [rows |-> Append(apiRows, [id |-> Len(apiRows) + 1, name |-> api.name,
                               base_url |-> api.base_url]),
     id |-> Len(apiRows) + 1]

\* insertOrGetApi
InsertOrGetApi(apiRows, api) ==
    IF \E i \in DOMAIN apiRows : apiRows[i].name = api.name
    THEN [rows |-> apiRows,
          id |-> apiRows[CHOOSE i \in DOMAIN apiRows : apiRows[i].name = api.name].id]
    ELSE [rows |-> Append(apiRows, [id |-> Len(apiRows) + 1, name |-> api.name,
                                    base_url |-> api.base_url]),
          id |-> Len(apiRows) + 1]

\* SELECT * FROM endpoints WHERE api_id = ? AND path = ? AND method = ?
GetEndpoint(endpointRows, apiId, path, method) ==
    IF \E i \in DOMAIN endpointRows :
          /\ endpointRows[i].api_id = apiId
          /\ endpointRows[i].path = path
          /\ endpointRows[i].method = method
    THEN endpointRows[CHOOSE i \in DOMAIN endpointRows :
                         /\ endpointRows[i].api_id = apiId
                         /\ endpointRows[i].path = path
                         /\ endpointRows[i].method = method]
    ELSE null

EndpointKey(endpoint) == <<endpoint.method, endpoint.path>>

RECURSIVE ProcessEndpoints(_, _, _, _)
ProcessEndpoints(declared, endpointRows, apiId, endpointMap) ==
    IF declared = <<>> THEN [rows |-> endpointRows, endpoints |-> endpointMap]
    ELSE LET endpoint == Head(declared)
             existingEndpoint == GetEndpoint(endpointRows, apiId, endpoint.path,
                                             endpoint.method)
             endpointId == IF existingEndpoint # null THEN existingEndpoint.id
                           ELSE Len(endpointRows) + 1
             rows == IF existingEndpoint # null THEN endpointRows
                     ELSE Append(endpointRows,
                                 [id |-> endpointId, api_id |-> apiId,
                                  path |-> endpoint.path, method |-> endpoint.method,
                                  expected_status |-> endpoint.expected_status,
                                  expected_fields |-> endpoint.expected_fields])
             key == EndpointKey(endpoint)
         IN ProcessEndpoints(Tail(declared), rows, apiId,
                [k \in DOMAIN endpointMap \cup {key} |->
                    IF k = key THEN endpointId ELSE endpointMap[k]])

PreHandleEndpoints(apiRows, endpointRows, api) ==
    LET a == InsertOrGetApi(apiRows, api)
        e == ProcessEndpoints(api.endpoints, endpointRows, a.id, <<>>)
    IN [apis |-> a.rows, endpoints |-> e.rows,
        apiData |-> [apiId |-> a.id, endpoints |-> e.endpoints]]

NoApiData == [apiId |-> 0, endpoints |-> <<>>]

(***************************************************************************)
(* State.                                                                  *)
(***************************************************************************)
VARIABLES
    apis, endpoints, probes, baselines,  \* the tables
    probesHasErrorMessage,               \* the probes table has an error_message column
    clock,                               \* CURRENT_TIMESTAMP, in seconds
    required_successful_probes,          \* settings.settings.baseline
    pc,                                  \* position of startTask
    resources, apiIdx, epIdx, apiData,   \* the loops of startTask
    endpointId, resolvedEndpoint, probeResult, baseline, validationResult,
    baselineResult,                      \* locals of one endpoint step
    validations, apiSummaries, apiPassed, apiFailed, totalPassed, totalFailed,
    results,
    variables,                           \* the variable table of the run
    baselineExpected                     \* history: per baseline row, the expected
                                         \* status declared by the run that created it

dbVars == <<apis, endpoints, probes, baselines, probesHasErrorMessage>>
stepVars == <<endpointId, resolvedEndpoint, probeResult, baseline, validationResult,
              baselineResult>>
countVars == <<validations, apiSummaries, apiPassed, apiFailed, totalPassed,
               totalFailed>>
vars == <<apis, endpoints, probes, baselines, baselineExpected,
          probesHasErrorMessage, clock,
          required_successful_probes, pc, resources, apiIdx, epIdx, apiData,
          endpointId, resolvedEndpoint, probeResult, baseline, validationResult,
          baselineResult, validations, apiSummaries, apiPassed, apiFailed,
          totalPassed, totalFailed, results, variables>>

NoResources == [apis |-> <<>>]
NoEndpoint == [path |-> <<>>, method |-> "", expected_status |-> 0,
               expected_fields |-> <<>>, stash |-> <<>>, request |-> NoRequest]
NoProbeResult == [api_name |-> "", endpoint |-> <<>>, method |-> "",
                  statusCode |-> undefinedStatus, fields |-> <<>>,
                  error |-> undefined, error_message |-> undefined,
                  responseType |-> undefined, latencyBucket |-> undefined,
                  data |-> NoData]
NoValidation == [api_name |-> "", endpoint |-> <<>>, method |-> "",
                 probeValidation |-> [statusCode |-> undefinedStatus,
                                      expectedStatus |-> 0,
                                      expectedFields |-> <<>>,
                                      new_fields |-> <<>>, removed_fields |-> <<>>,
                                      passed |-> FALSE],
                 hasBaselineComparison |-> FALSE,
                 baselineComparison |-> NoBaselineComparison,
                 passed |-> FALSE, isConnectionError |-> FALSE,
                 errorMessage |-> NoMessage]
NoBaselineResult == [created |-> FALSE, baseline |-> null]
NoResults == [total_apis |-> 0, total_endpoints |-> 0, total_passed |-> 0,
              total_failed |-> 0, apis |-> <<>>, validations |-> <<>>]

\* the locals of an endpoint step before the step starts
StepReset ==
    /\ endpointId' = 0
    /\ resolvedEndpoint' = NoEndpoint
    /\ probeResult' = NoProbeResult
    /\ baseline' = null
    /\ validationResult' = NoValidation
    /\ baselineResult' = NoBaselineResult

(***************************************************************************)
(* Init: the database as initializeDatabase returns it.  A new file gets   *)
(* the schema of initializeSchema, whose probes table has no error_message *)
(* column; an existing file is opened as it is.  The tables are empty.     *)
(***************************************************************************)
Init ==
    /\ apis = <<>> /\ endpoints = <<>> /\ probes = <<>> /\ baselines = <<>> /\ baselineExpected = <<>>
    /\ probesHasErrorMessage \in BOOLEAN
    /\ clock = 0
    /\ required_successful_probes \in 1..MaxRequired
    /\ pc = "menu"
    /\ resources = NoResources /\ apiIdx = 0 /\ epIdx = 0 /\ apiData = NoApiData
    /\ endpointId = 0 /\ resolvedEndpoint = NoEndpoint
    /\ probeResult = NoProbeResult /\ baseline = null
    /\ validationResult = NoValidation /\ baselineResult = NoBaselineResult
    /\ validations = <<>> /\ apiSummaries = <<>>
    /\ apiPassed = 0 /\ apiFailed = 0 /\ totalPassed = 0 /\ totalFailed = 0
    /\ results = NoResults
    /\ variables = <<>>

(***************************************************************************)
(* startTask, one action per step of its loops.                            *)
(***************************************************************************)
CurrentApi == resources.apis[apiIdx]

\* a loop that takes the endpoints of an API from the last to the first
CurrentEndpoint_Reversed == CurrentApi.endpoints[Len(CurrentApi.endpoints) + 1 - epIdx]

CurrentEndpoint == CurrentApi.endpoints[epIdx]

\* apiData.endpoints.get(raw key), falling back to the resolved key; 0 if absent
LookupEndpointId(data, endpoint, resolved) ==
    IF EndpointKey(endpoint) \in DOMAIN data.endpoints
    THEN data.endpoints[EndpointKey(endpoint)]
    ELSE IF EndpointKey(resolved) \in DOMAIN data.endpoints
    THEN data.endpoints[EndpointKey(resolved)]
    ELSE 0

\* the number of endpoints a run over cfg probes (used to cap the probes table)
RECURSIVE NumEndpoints(_)
NumEndpoints(cfg) ==
    IF cfg.apis = <<>> THEN 0
    ELSE (IF Head(cfg.apis).disabled THEN 0 ELSE Len(Head(cfg.apis).endpoints))
         + NumEndpoints([apis |-> Tail(cfg.apis)])

\* startTask called with the given configuration
StartTaskWith(cfg) ==
    /\ pc = "menu"
    /\ Len(probes) + NumEndpoints(cfg) <= MaxProbes
    /\ resources' = cfg
    /\ validations' = <<>> /\ apiSummaries' = <<>>
    /\ totalPassed' = 0 /\ totalFailed' = 0
    /\ apiPassed' = 0 /\ apiFailed' = 0
    /\ apiIdx' = 1 /\ epIdx' = 0 /\ apiData' = NoApiData
    /\ results' = NoResults
    /\ variables' = <<>>
    /\ StepReset
    /\ pc' = "api"
    /\ UNCHANGED <<dbVars, baselineExpected, clock, required_successful_probes>>

\* a start that keeps the variable table of the run before
StartTask_KeepsVariables ==
    /\ pc = "menu"
    /\ \E cfg \in ResourcesConfigs :
          /\ Len(probes) + NumEndpoints(cfg) <= MaxProbes
          /\ resources' = cfg
    /\ validations' = <<>> /\ apiSummaries' = <<>>
    /\ totalPassed' = 0 /\ totalFailed' = 0
    /\ apiPassed' = 0 /\ apiFailed' = 0
    /\ apiIdx' = 1 /\ epIdx' = 0 /\ apiData' = NoApiData
    /\ results' = NoResults
    /\ StepReset
    /\ pc' = "api"
    /\ UNCHANGED <<dbVars, baselineExpected, clock, required_successful_probes, variables>>

\* "Run All Probes": the locals of startTask are initialised.  A run is started
\* only while the probes table stays within MaxProbes rows.
StartTask ==
    /\ pc = "menu"
    /\ \E cfg \in ResourcesConfigs : StartTaskWith(cfg)

\* what a call of preHandleEndpoints does: it returns, or its first database
\* statement (in insertOrGetApi) raises and nothing has been written
PreHandleOutcomes == {"returned", "SqliteError"}

\* a loop over the APIs that does not look at disabled
ApiStep_IgnoreDisabled ==
    /\ pc = "api"
    /\ apiIdx <= Len(resources.apis)
    /\ \E outcome \in PreHandleOutcomes :
          IF outcome = "SqliteError"
          THEN /\ pc' = "apiError"
               /\ UNCHANGED <<apis, endpoints, apiData, apiPassed, apiFailed,
                              epIdx, apiIdx>>
          ELSE LET pre == PreHandleEndpoints(apis, endpoints, CurrentApi)
               IN /\ apis' = pre.apis
                  /\ endpoints' = pre.endpoints
                  /\ apiData' = pre.apiData
                  /\ apiPassed' = 0 /\ apiFailed' = 0
                  /\ epIdx' = 1
                  /\ pc' = "endpoint"
                  /\ UNCHANGED apiIdx
    /\ UNCHANGED <<probes, baselines, baselineExpected,
                   probesHasErrorMessage, clock,
                   required_successful_probes, variables, resources, stepVars,
                   validations, apiSummaries, totalPassed, totalFailed, results>>

\* top of the loop over the APIs: skip a disabled API, otherwise
\* preHandleEndpoints; what it raises is caught at the API boundary
ApiStep ==
    /\ pc = "api"
    /\ apiIdx <= Len(resources.apis)
    /\ IF CurrentApi.disabled
       THEN /\ apiIdx' = apiIdx + 1
            /\ UNCHANGED <<apis, endpoints, apiData, apiPassed, apiFailed, epIdx, pc>>
       ELSE \E outcome \in PreHandleOutcomes :
               IF outcome = "SqliteError"
               THEN /\ pc' = "apiError"
                    /\ UNCHANGED <<apis, endpoints, apiData, apiPassed, apiFailed,
                                   epIdx, apiIdx>>
               ELSE LET pre == PreHandleEndpoints(apis, endpoints, CurrentApi)
                    IN /\ apis' = pre.apis
                       /\ endpoints' = pre.endpoints
                       /\ apiData' = pre.apiData
                       /\ apiPassed' = 0 /\ apiFailed' = 0
                       /\ epIdx' = 1
                       /\ pc' = "endpoint"
                       /\ UNCHANGED apiIdx
    /\ UNCHANGED <<probes, baselines, baselineExpected,
                   probesHasErrorMessage, clock,
                   required_successful_probes, variables, resources, stepVars,
                   validations, apiSummaries, totalPassed, totalFailed, results>>

\* a catch that counts the endpoints of the skipped API as failed
ApiErrorStep_CountsFailures ==
    /\ pc = "apiError"
    /\ apiIdx' = apiIdx + 1
    /\ totalFailed' = totalFailed + Len(CurrentApi.endpoints)
    /\ pc' = "api"
    /\ UNCHANGED <<dbVars, baselineExpected, clock, required_successful_probes, variables, resources,
                   epIdx, apiData, stepVars, validations, apiSummaries, apiPassed,
                   apiFailed, totalPassed, results>>

\* catch (apiError): the error is logged and the loop goes on with the next API
ApiErrorStep ==
    /\ pc = "apiError"
    /\ apiIdx' = apiIdx + 1
    /\ pc' = "api"
    /\ UNCHANGED <<dbVars, baselineExpected, clock, required_successful_probes, variables, resources,
                   epIdx, apiData, stepVars, countVars, results>>

\* top of the loop over the endpoints: resolve, look the id up, probe; ev is
\* what the network answers to the request.
\* The request takes time: the clock may pass a second boundary meanwhile.
ProbeStepWith(ev) ==
    /\ pc = "endpoint"
    /\ epIdx <= Len(CurrentApi.endpoints)
    /\ LET resolved == ResolveEndpointVariables(CurrentEndpoint, variables)
           id == LookupEndpointId(apiData, CurrentEndpoint, resolved)
       IN IF id = 0
          THEN /\ epIdx' = epIdx + 1
               /\ StepReset
               /\ UNCHANGED <<pc, clock>>
          ELSE /\ probeResult' = ProbeHandler(CurrentApi.name, resolved, ev)
               /\ \E now \in {clock, clock + 1} : now <= MaxClock /\ clock' = now
               /\ endpointId' = id
               /\ resolvedEndpoint' = resolved
               /\ baseline' = null
               /\ validationResult' = NoValidation
               /\ baselineResult' = NoBaselineResult
               /\ pc' = "validate"
               /\ UNCHANGED epIdx
    /\ UNCHANGED <<dbVars, baselineExpected, required_successful_probes, variables, resources, apiIdx,
                   apiData, countVars, results>>

\* the endpoint step of a run: the network answers with one of its events
ProbeStep ==
    /\ pc = "endpoint"
    /\ \E ev \in NetworkEvents : ProbeStepWith(ev)

\* validateProbeResponse
ValidateStep ==
    /\ pc = "validate"
    /\ \E b \in GetBaseline(probes, baselines, apiData.apiId, endpointId) :
          /\ baseline' = b
          /\ validationResult' = ValidateProbeResponse(b, probeResult, resolvedEndpoint)
    /\ pc' = "stash"
    /\ UNCHANGED <<dbVars, baselineExpected, clock, required_successful_probes, variables, resources, apiIdx,
                   epIdx, apiData, endpointId, resolvedEndpoint, probeResult,
                   baselineResult, countVars, results>>

\* the stash of the declared endpoint is applied to the variable table when the
\* validation passed and the response carried data
StashStep ==
    /\ pc = "stash"
    /\ variables' = IF StashGuard(validationResult, CurrentEndpoint, probeResult)
                    THEN UpdateVariables(variables, probeResult.data,
                                         CurrentEndpoint.stash)
                    ELSE variables
    /\ pc' = "persist"
    /\ UNCHANGED <<dbVars, baselineExpected, clock, required_successful_probes, resources, apiIdx,
                   epIdx, apiData, stepVars, countVars, results>>

\* an endpoint step without the catch: what insertProbeResult raises leaves
\* startTask, and the run ends without a result
PersistStep_NoCatch ==
    /\ pc = "persist"
    /\ IF probesHasErrorMessage
       THEN /\ probes' = Append(probes, ProbeRow(probes, apiData.apiId, endpointId,
                                                 validationResult, probeResult, clock))
            /\ pc' = "baseline"
       ELSE /\ pc' = "menu"
            /\ UNCHANGED probes
    /\ UNCHANGED <<apis, endpoints, baselines, baselineExpected,
                   probesHasErrorMessage, clock,
                   required_successful_probes, variables, resources, apiIdx, apiData,
                   stepVars, validations, apiSummaries, apiPassed, totalPassed,
                   results, epIdx, apiFailed, totalFailed>>

\* insertProbeResult; the statement fails to prepare when the table has no
\* error_message column, and the fault is caught at the endpoint boundary
PersistStep ==
    /\ pc = "persist"
    /\ IF probesHasErrorMessage
       THEN /\ probes' = Append(probes, ProbeRow(probes, apiData.apiId, endpointId,
                                                 validationResult, probeResult, clock))
            /\ pc' = "baseline"
            /\ UNCHANGED <<epIdx, apiFailed, totalFailed>>
       ELSE /\ apiFailed' = apiFailed + 1
            /\ totalFailed' = totalFailed + 1
            /\ epIdx' = epIdx + 1
            /\ pc' = "endpoint"
            /\ UNCHANGED probes
    /\ UNCHANGED <<apis, endpoints, baselines, baselineExpected,
                   probesHasErrorMessage, clock,
                   required_successful_probes, variables, resources, apiIdx, apiData,
                   stepVars, validations, apiSummaries, apiPassed, totalPassed,
                   results>>

\* checkAndCreateBaseline, then the validation is appended and counted
BaselineStep ==
    /\ pc = "baseline"
    /\ \E existing \in GetLatestBaseline(baselines, apiData.apiId, endpointId) :
       \E allProbes \in GetProbesByEndpoint(probes, endpointId) :
          LET r == CheckAndCreateBaseline(existing, allProbes, baselines,
                                          apiData.apiId, endpointId,
                                          required_successful_probes, clock)
          IN /\ baselineResult' = r
             /\ baselines' = IF r.created THEN Append(baselines, r.baseline)
                             ELSE baselines
             /\ baselineExpected' =
                   IF r.created
                   THEN Append(baselineExpected, resolvedEndpoint.expected_status)
                   ELSE baselineExpected
    /\ validations' = Append(validations, validationResult)
    /\ IF validationResult.passed
       THEN /\ apiPassed' = apiPassed + 1 /\ totalPassed' = totalPassed + 1
            /\ UNCHANGED <<apiFailed, totalFailed>>
       ELSE /\ apiFailed' = apiFailed + 1 /\ totalFailed' = totalFailed + 1
            /\ UNCHANGED <<apiPassed, totalPassed>>
    /\ epIdx' = epIdx + 1
    /\ pc' = "endpoint"
    /\ UNCHANGED <<apis, endpoints, probes, probesHasErrorMessage, clock,
                   required_successful_probes, variables, resources, apiIdx, apiData,
                   endpointId, resolvedEndpoint, probeResult, baseline,
                   validationResult, apiSummaries, results>>

\* after the last endpoint: the API summary
ApiSummaryStep ==
    /\ pc = "endpoint"
    /\ epIdx > Len(CurrentApi.endpoints)
    /\ apiSummaries' = Append(apiSummaries,
                              [api_name |-> CurrentApi.name,
                               total_endpoints |-> apiPassed + apiFailed,
                               passed |-> apiPassed, failed |-> apiFailed])
    /\ apiIdx' = apiIdx + 1
    /\ pc' = "api"
    /\ UNCHANGED <<dbVars, baselineExpected, clock, required_successful_probes, variables, resources, epIdx,
                   apiData, stepVars, validations, apiPassed, apiFailed, totalPassed,
                   totalFailed, results>>

\* after the last API: the results
FinishTask ==
    /\ pc = "api"
    /\ apiIdx > Len(resources.apis)
    /\ results' = [total_apis |-> Len(resources.apis),
                   total_endpoints |-> totalPassed + totalFailed,
                   total_passed |-> totalPassed,
                   total_failed |-> totalFailed,
                   apis |-> apiSummaries,
                   validations |-> validations]
    /\ pc' = "menu"
    /\ UNCHANGED <<dbVars, baselineExpected, clock, required_successful_probes, variables, resources, apiIdx,
                   epIdx, apiData, stepVars, countVars>>

Next ==
    \/ StartTask
    \/ ApiStep
    \/ ApiErrorStep
    \/ ProbeStep
    \/ ValidateStep
    \/ StashStep
    \/ PersistStep
    \/ BaselineStep
    \/ ApiSummaryStep
    \/ FinishTask

Spec == Init /\ [][Next]_vars

(***************************************************************************)
(* One run of startTask on a database without rows, taken to its end:      *)
(* startTask is sequential code, so its next step is always taken.         *)
(***************************************************************************)
InitRun ==
    /\ apis = <<>> /\ endpoints = <<>> /\ probes = <<>> /\ baselines = <<>> /\ baselineExpected = <<>>
    /\ probesHasErrorMessage \in BOOLEAN
    /\ clock = 0
    /\ required_successful_probes \in 1..MaxRequired
    /\ pc = "api"
    /\ resources \in ResourcesConfigs
    /\ apiIdx = 1 /\ epIdx = 0 /\ apiData = NoApiData
    /\ endpointId = 0 /\ resolvedEndpoint = NoEndpoint
    /\ probeResult = NoProbeResult /\ baseline = null
    /\ validationResult = NoValidation /\ baselineResult = NoBaselineResult
    /\ validations = <<>> /\ apiSummaries = <<>>
    /\ apiPassed = 0 /\ apiFailed = 0 /\ totalPassed = 0 /\ totalFailed = 0
    /\ results = NoResults
    /\ variables = <<>>

NextRun ==
    \/ ApiStep
    \/ ApiErrorStep
    \/ ProbeStep
    \/ ValidateStep
    \/ StashStep
    \/ PersistStep
    \/ BaselineStep
    \/ ApiSummaryStep
    \/ FinishTask

SpecRun == InitRun /\ [][NextRun]_vars /\ WF_vars(NextRun)

(***************************************************************************)
(* Runs that declare the same endpoint with different expectations: GET    *)
(* /users expecting 200 and no fields in one run, 500 and the field error  *)
(* in another.                                                             *)
(***************************************************************************)
GetUsersExpectingError ==
    [path |-> <<Lit("/users")>>, method |-> "GET", expected_status |-> 500,
     expected_fields |-> <<"error">>, stash |-> <<>>, request |-> NoRequest]

RedeclaredConfigs ==
    {[apis |-> <<Api("users", FALSE, <<GetUsers>>)>>],
     [apis |-> <<Api("users", FALSE, <<GetUsersExpectingError>>)>>]}

\* an empty database, and configurations the loader has accepted
InitRedeclare ==
    /\ \A cfg \in RedeclaredConfigs : ResourcesSchema(cfg)
    /\ Init

StartRedeclared ==
    /\ pc = "menu"
    /\ \E cfg \in RedeclaredConfigs : StartTaskWith(cfg)

NextRedeclare ==
    \/ StartRedeclared
    \/ ApiStep
    \/ ApiErrorStep
    \/ ProbeStep
    \/ ValidateStep
    \/ StashStep
    \/ PersistStep
    \/ BaselineStep
    \/ ApiSummaryStep
    \/ FinishTask

SpecRedeclare == InitRedeclare /\ [][NextRedeclare]_vars

(***************************************************************************)
(* deleteApi.  The connection has foreign_keys = ON and every reference is *)
(* declared ON DELETE CASCADE, so the DELETE on apis removes the endpoints *)
(* of the API, the probes of the API and of those endpoints, and the       *)
(* baselines of the API, of those endpoints and of those probes.  No code  *)
(* of the repository calls deleteApi: it is applied once, from outside,    *)
(* to the database that any sequence of runs has left.                     *)
(***************************************************************************)
\* the rows of a table at the positions kept, in their order
RECURSIVE KeepAt(_, _)
KeepAt(rows, keep) ==
    IF rows = <<>> THEN <<>>
    ELSE LET front == KeepAt(SubSeq(rows, 1, Len(rows) - 1), keep)
         IN IF Len(rows) \in keep THEN Append(front, rows[Len(rows)]) ELSE front

\* a delete on a connection without foreign keys: only the apis row goes
DeleteApi_NoCascade(apiRows, endpointRows, probeRows, baselineRows, expected, apiName) ==
    [apis |-> KeepAt(apiRows, {i \in DOMAIN apiRows : apiRows[i].name # apiName}),
     endpoints |-> endpointRows, probes |-> probeRows, baselines |-> baselineRows,
     baselineExpected |-> expected]

\* DELETE FROM apis WHERE name = ?
DeleteApi(apiRows, endpointRows, probeRows, baselineRows, expected, apiName) ==
    LET apiIds == {apiRows[i].id : i \in {j \in DOMAIN apiRows : apiRows[j].name = apiName}}
        keptEndpoints == {i \in DOMAIN endpointRows : endpointRows[i].api_id \notin apiIds}
        endpointIds == {endpointRows[i].id : i \in DOMAIN endpointRows \ keptEndpoints}
        keptProbes == {i \in DOMAIN probeRows :
                          /\ probeRows[i].api_id \notin apiIds
                          /\ probeRows[i].endpoint_id \notin endpointIds}
        probeIds == {probeRows[i].id : i \in DOMAIN probeRows \ keptProbes}
        keptBaselines == {i \in DOMAIN baselineRows :
                             /\ baselineRows[i].api_id \notin apiIds
                             /\ baselineRows[i].endpoint_id \notin endpointIds
                             /\ baselineRows[i].probe_id \notin probeIds}
    IN [apis |-> KeepAt(apiRows, {i \in DOMAIN apiRows : apiRows[i].name # apiName}),
        endpoints |-> KeepAt(endpointRows, keptEndpoints),
        probes |-> KeepAt(probeRows, keptProbes),
        baselines |-> KeepAt(baselineRows, keptBaselines),
        baselineExpected |-> KeepAt(expected, keptBaselines)]

\* the names deleteApi is called with: the APIs of the configurations and one
\* that no configuration declares
DeletedNames == {"users", "legacy", "posts", "orders"}

\* a call of deleteApi between two runs
DeleteApiCall ==
    /\ pc = "menu"
    /\ \E apiName \in DeletedNames :
          LET after == DeleteApi(apis, endpoints, probes, baselines, baselineExpected,
                                 apiName)
          IN /\ apis' = after.apis
             /\ endpoints' = after.endpoints
             /\ probes' = after.probes
             /\ baselines' = after.baselines
             /\ baselineExpected' = after.baselineExpected
    /\ pc' = "deleted"
    /\ UNCHANGED <<probesHasErrorMessage, clock, required_successful_probes, variables,
                   resources, apiIdx, epIdx, apiData, stepVars, countVars, results>>

\* the runs before the call: one API with one endpoint, or two enabled APIs
\* around a disabled one
DeletableConfigs ==
    {[apis |-> <<Api("users", FALSE, <<GetUsers>>)>>],
     [apis |-> <<Api("users", FALSE, <<GetMe, GetUserById>>),
                 Api("legacy", TRUE, <<GetPosts>>),
                 Api("posts", FALSE, <<CreatePost>>)>>]}

\* an empty database, and configurations the loader has accepted
InitDelete ==
    /\ \A cfg \in DeletableConfigs : ResourcesSchema(cfg)
    /\ Init

StartDeletable ==
    /\ pc = "menu"
    /\ \E cfg \in DeletableConfigs : StartTaskWith(cfg)

NextDelete ==
    \/ StartDeletable
    \/ ApiStep
    \/ ApiErrorStep
    \/ ProbeStep
    \/ ValidateStep
    \/ StashStep
    \/ PersistStep
    \/ BaselineStep
    \/ ApiSummaryStep
    \/ FinishTask
    \/ DeleteApiCall

SpecDelete == InitDelete /\ [][NextDelete]_vars

(***************************************************************************)
(* One endpoint step over response bodies of every shape: objects with and *)
(* without message and error fields (strings, empty strings, numbers,      *)
(* nested objects), arrays of objects, of scalars and of arrays, scalars,  *)
(* and bodies that are not JSON.                                           *)
(***************************************************************************)
StrEmpty == [t |-> "string", str |-> "", json |-> "\"\""]
StrBoom == [t |-> "string", str |-> "boom", json |-> "\"boom\""]
NumZero == [t |-> "number", str |-> "0", json |-> "0"]
BoolFalse == [t |-> "boolean", str |-> "false", json |-> "false"]

ResponseBodies ==
    {JsonObject(<<>>),
     JsonObject(<<[k |-> "id", v |-> Num42]>>),
     JsonObject(<<[k |-> "message", v |-> StrNotFound]>>),
     JsonObject(<<[k |-> "message", v |-> StrNotFound], [k |-> "error", v |-> StrBoom]>>),
     JsonObject(<<[k |-> "error", v |-> StrBoom]>>),
     JsonObject(<<[k |-> "error", v |-> ObjCode]>>),
     JsonObject(<<[k |-> "message", v |-> ObjCode]>>),
     JsonObject(<<[k |-> "message", v |-> StrEmpty], [k |-> "error", v |-> StrBoom]>>),
     JsonObject(<<[k |-> "error", v |-> NumZero]>>),
     JsonObject(<<[k |-> "error", v |-> BoolFalse]>>),
     JsonArray(<<JsonObject(<<[k |-> "id", v |-> Num42]>>),
                 JsonObject(<<[k |-> "name", v |-> StrAda]>>)>>),
     JsonArray(<<JsonObject(<<[k |-> "id", v |-> Num42]>>), JsonScalar,
                 JsonObject(<<[k |-> "id", v |-> Num42], [k |-> "name", v |-> StrAda]>>)>>),
     JsonArray(<<JsonArray(<<JsonScalar, JsonScalar>>),
                 JsonObject(<<[k |-> "id", v |-> Num42]>>)>>),
     JsonArray(<<JsonScalar, JsonScalar>>),
     JsonArray(<<>>),
     JsonScalar}

\* what responseBody.json() returns: objects with distinct keys whose values
\* have a JSON form, arrays of such values, scalars
RECURSIVE ParsedJson(_)
ParsedJson(data) ==
    /\ data.type \in {"object", "array", "scalar"}
    /\ \A i, j \in DOMAIN data.props : data.props[i].k = data.props[j].k => i = j
    /\ \A i \in DOMAIN data.props :
          data.props[i].v.json # undefined /\ data.props[i].v.str # undefined
    /\ \A i \in DOMAIN data.items : ParsedJson(data.items[i])

\* the outcomes of the request: a JSON response with any of those bodies, a
\* response of another content type, the deadline, any other fault
BodyEvents ==
    {Response(st, "application/json", body, 100) :
        st \in {200, 404}, body \in ResponseBodies}
    \cup {Response(st, ct, NoData, 100) :
            st \in {200, 404}, ct \in {"text/html", "text/plain", undefined}}
    \cup {Fault("AbortError", "This operation was aborted"),
          Fault("other", "fetch failed")}

\* what the HTTP client can hand back: a response with a status, a latency and,
\* under a JSON content type, a parsed body; or a fault with its message
HttpOutcome(ev) ==
    /\ ev.kind = "response" => ev.statusCode \in 100..599 /\ ev.latencyMs >= 0
    /\ ev.kind = "response" /\ IsJsonContentType(ev.contentType)
       => ParsedJson(ev.json)
    /\ ev.kind # "response" => ev.message # undefined

BodyEndpoints ==
    {[path |-> <<Lit("/users")>>, method |-> "GET", expected_status |-> 200,
      expected_fields |-> fs, stash |-> <<>>, request |-> NoRequest] :
        fs \in {<<>>, <<"id">>, <<"id", "name">>}}

\* the probes a baseline may pin here
BodyPinnedProbes ==
    {[id |-> 1, api_id |-> 1, endpoint_id |-> 1, passed |-> TRUE,
      status_code |-> 200, response_type |-> ct, latency_bucket |-> "fast",
      probe_time |-> 0, error_message |-> undefined] :
        ct \in {"application/json", "text/html"}}

InitBody ==
    /\ \A ev \in BodyEvents : HttpOutcome(ev)
    /\ \A endpoint \in BodyEndpoints : ApiEndpointSchema(endpoint)
    /\ \E endpoint \in BodyEndpoints :
       \E pinned \in BodyPinnedProbes \cup {null} :
           LET api == Api("users", FALSE, <<endpoint>>)
               pre == PreHandleEndpoints(<<>>, <<>>, api)
           IN /\ apis = pre.apis /\ endpoints = pre.endpoints
              /\ probes = IF pinned = null THEN <<>> ELSE <<pinned>>
              /\ baselines = IF pinned = null THEN <<>>
                             ELSE <<[id |-> 1, api_id |-> 1, endpoint_id |-> 1,
                                     probe_id |-> pinned.id, baseline_time |-> 0]>>
              /\ baselineExpected = IF pinned = null THEN <<>>
                                    ELSE <<pinned.status_code>>
              /\ probesHasErrorMessage = TRUE
              /\ clock = 1
              /\ required_successful_probes = 1
              /\ pc = "endpoint"
              /\ resources = [apis |-> <<api>>] /\ apiIdx = 1 /\ epIdx = 1
              /\ apiData = pre.apiData
              /\ endpointId = 0 /\ resolvedEndpoint = NoEndpoint
              /\ probeResult = NoProbeResult /\ baseline = null
              /\ validationResult = NoValidation /\ baselineResult = NoBaselineResult
              /\ validations = <<>> /\ apiSummaries = <<>>
              /\ apiPassed = 0 /\ apiFailed = 0 /\ totalPassed = 0 /\ totalFailed = 0
              /\ results = NoResults
              /\ variables = <<>>

\* the request of the step, answered by any of those responses
ProbeBody ==
    /\ pc = "endpoint"
    /\ \E ev \in BodyEvents : ProbeStepWith(ev)

NextBody == ProbeBody \/ ValidateStep

SpecBody == InitBody /\ [][NextBody]_vars

(***************************************************************************)
(* validateProbeResponse over a wide range of inputs.  The run stands      *)
(* before the validation of the first endpoint; the probe result is any    *)
(* result probeHandler can return, the expectation any declared one, and   *)
(* the endpoint has no baseline or one baseline pinning a passed probe.    *)
(***************************************************************************)
WideBodies ==
    {JsonObject(<<>>),
     JsonObject(<<[k |-> "id", v |-> Num42]>>),
     JsonObject(<<[k |-> "id", v |-> Num42], [k |-> "name", v |-> StrAda]>>),
     JsonObject(<<[k |-> "name", v |-> StrAda], [k |-> "id", v |-> Num42]>>),
     JsonObject(<<[k |-> "id", v |-> Num42], [k |-> "name", v |-> StrAda],
                  [k |-> "email", v |-> StrAda]>>),
     JsonObject(<<[k |-> "message", v |-> StrNotFound]>>),
     JsonObject(<<[k |-> "error", v |-> ObjCode]>>),
     JsonArray(<<JsonObject(<<[k |-> "id", v |-> Num42]>>),
                 JsonObject(<<[k |-> "name", v |-> StrAda]>>)>>),
     JsonArray(<<>>),
     JsonScalar}

WideStatusCodes == {200, 404}
WideLatencies == {100, 250}

WideNetworkEvents ==
    {Response(st, ct, body, ms) :
        st \in WideStatusCodes,
        ct \in {"application/json", "application/json; charset=utf-8"},
        body \in WideBodies, ms \in WideLatencies}
    \cup {Response(st, ct, NoData, ms) :
            st \in WideStatusCodes, ct \in {"text/html", undefined},
            ms \in WideLatencies}
    \cup {Fault("AbortError", "This operation was aborted"),
          Fault("ECONNREFUSED", "connect ECONNREFUSED 127.0.0.1:3001"),
          Fault("other", "fetch failed")}

WideEndpoints ==
    {[path |-> <<Lit("/users")>>, method |-> "GET", expected_status |-> st,
      expected_fields |-> fs, stash |-> <<>>, request |-> NoRequest] :
        st \in WideStatusCodes,
        fs \in {<<>>, <<"id">>, <<"id", "name">>, <<"name", "id">>,
                <<"email">>, <<"id", "id">>}}

\* the probes a baseline may pin: passed, with the status and type observed then
WidePinnedProbes ==
    {[id |-> 1, api_id |-> 1, endpoint_id |-> 1, passed |-> TRUE,
      status_code |-> st, response_type |-> ct, latency_bucket |-> lb,
      probe_time |-> 0, error_message |-> undefined] :
        st \in WideStatusCodes,
        ct \in {"application/json", "application/json; charset=utf-8", "text/html"},
        lb \in {"fast", "slow"}}

InitValidate ==
    \E endpoint \in WideEndpoints, ev \in WideNetworkEvents :
    \E pinned \in WidePinnedProbes \cup {null} :
        LET api == Api("users", FALSE, <<endpoint>>)
            pre == PreHandleEndpoints(<<>>, <<>>, api)
        IN /\ apis = pre.apis /\ endpoints = pre.endpoints
           /\ probes = IF pinned = null THEN <<>> ELSE <<pinned>>
           /\ baselines = IF pinned = null THEN <<>>
                          ELSE <<[id |-> 1, api_id |-> 1, endpoint_id |-> 1,
                                  probe_id |-> pinned.id, baseline_time |-> 0]>>
           /\ baselineExpected = IF pinned = null THEN <<>>
                                 ELSE <<pinned.status_code>>
           /\ probesHasErrorMessage = TRUE
           /\ clock = 1
           /\ required_successful_probes = 1
           /\ pc = "validate"
           /\ resources = [apis |-> <<api>>] /\ apiIdx = 1 /\ epIdx = 1
           /\ apiData = pre.apiData
           /\ endpointId = 1 /\ resolvedEndpoint = endpoint
           /\ probeResult = ProbeHandler(api.name, endpoint, ev)
           /\ baseline = null
           /\ validationResult = NoValidation /\ baselineResult = NoBaselineResult
           /\ validations = <<>> /\ apiSummaries = <<>>
           /\ apiPassed = 0 /\ apiFailed = 0 /\ totalPassed = 0 /\ totalFailed = 0
           /\ results = NoResults
           /\ variables = <<>>

SpecValidate == InitValidate /\ [][ValidateStep]_vars

(***************************************************************************)
(* The stash over a wide range of inputs.  The run stands before the       *)
(* validation of its only endpoint, which declares any of the stash specs  *)
(* below; the variable table holds what earlier endpoints may have left,   *)
(* the probe result is any result probeHandler can return, and the         *)
(* endpoint has no baseline or one pinning a passed probe.                 *)
(***************************************************************************)
Num7 == [t |-> "number", str |-> "7", json |-> "7"]

WideStashes ==
    {<<>>,
     <<[varName |-> "userId", path |-> "id"]>>,
     <<[varName |-> "userId", path |-> "id"], [varName |-> "userName", path |-> "name"]>>,
     <<[varName |-> "userId", path |-> "uuid"]>>,
     <<[varName |-> "count", path |-> "length"]>>,
     <<[varName |-> "userId", path |-> "constructor"]>>}

WideVariables ==
    {<<>>,
     [n \in {"userId"} |-> Num7],
     [n \in {"userId", "token"} |-> IF n = "userId" THEN Num7 ELSE StrAda]}

WideStashEndpoints ==
    {[path |-> <<Lit("/me")>>, method |-> "GET", expected_status |-> 200,
      expected_fields |-> fs, stash |-> st, request |-> NoRequest] :
        fs \in {<<>>, <<"id">>, <<"id", "name">>}, st \in WideStashes}

StashPinnedProbes ==
    {p \in WidePinnedProbes : p.status_code = 200 /\ p.latency_bucket = "fast"}

InitStash ==
    \E endpoint \in WideStashEndpoints, ev \in WideNetworkEvents :
    \E pinned \in StashPinnedProbes \cup {null}, table \in WideVariables :
        LET api == Api("users", FALSE, <<endpoint>>)
            pre == PreHandleEndpoints(<<>>, <<>>, api)
        IN /\ apis = pre.apis /\ endpoints = pre.endpoints
           /\ probes = IF pinned = null THEN <<>> ELSE <<pinned>>
           /\ baselines = IF pinned = null THEN <<>>
                          ELSE <<[id |-> 1, api_id |-> 1, endpoint_id |-> 1,
                                  probe_id |-> pinned.id, baseline_time |-> 0]>>
           /\ baselineExpected = IF pinned = null THEN <<>>
                                 ELSE <<pinned.status_code>>
           /\ probesHasErrorMessage = TRUE
           /\ clock = 1
           /\ required_successful_probes = 1
           /\ pc = "validate"
           /\ resources = [apis |-> <<api>>] /\ apiIdx = 1 /\ epIdx = 1
           /\ apiData = pre.apiData
           /\ endpointId = 1 /\ resolvedEndpoint = endpoint
           /\ probeResult = ProbeHandler(api.name, endpoint, ev)
           /\ baseline = null
           /\ validationResult = NoValidation /\ baselineResult = NoBaselineResult
           /\ validations = <<>> /\ apiSummaries = <<>>
           /\ apiPassed = 0 /\ apiFailed = 0 /\ totalPassed = 0 /\ totalFailed = 0
           /\ results = NoResults
           /\ variables = table

NextStash == ValidateStep \/ StashStep

SpecStash == InitStash /\ [][NextStash]_vars

(***************************************************************************)
(* resolveEndpointVariables over a wide range of inputs.  The run stands   *)
(* before the resolution of its only endpoint, whose path and fixtures     *)
(* hold placeholders; the variable table holds what earlier endpoints may  *)
(* have left, null included.                                               *)
(***************************************************************************)
JsNull == [t |-> "null", str |-> "null", json |-> "null"]

WidePaths ==
    {<<Lit("/users")>>,
     <<Lit("/users/"), Placeholder("userId")>>,
     <<Lit("/users/"), Placeholder("userId"), Lit("/posts/"), Placeholder("postId")>>,
     <<Placeholder("token"), Placeholder("userId")>>,
     <<Lit("/users/"), Placeholder("constructor")>>}

WideRequests ==
    {NoRequest,
     [fixture |->
        [body |-> <<[k |-> "author", v |-> Text(<<Placeholder("userId")>>)],
                    [k |-> "title", v |-> Text(<<Lit("Hello "), Placeholder("name")>>)]>>,
         query |-> <<[k |-> "as", v |-> Text(<<Lit("u"), Placeholder("userId")>>)]>>]],
     [fixture |->
        [body |-> <<>>,
         query |-> <<[k |-> "sort", v |-> Text(<<Placeholder("toString")>>)]>>]]}

WideTemplateEndpoints ==
    {[path |-> p, method |-> "POST", expected_status |-> 200,
      expected_fields |-> <<>>, stash |-> <<>>, request |-> r] :
        p \in WidePaths, r \in WideRequests}

WideTables == WideVariables \cup {[n \in {"userId"} |-> JsNull]}

InitResolve ==
    \E endpoint \in WideTemplateEndpoints, table \in WideTables :
        LET api == Api("users", FALSE, <<endpoint>>)
            pre == PreHandleEndpoints(<<>>, <<>>, api)
        IN /\ apis = pre.apis /\ endpoints = pre.endpoints
           /\ probes = <<>> /\ baselines = <<>> /\ baselineExpected = <<>>
           /\ probesHasErrorMessage = TRUE
           /\ clock = 0
           /\ required_successful_probes = 1
           /\ pc = "endpoint"
           /\ resources = [apis |-> <<api>>] /\ apiIdx = 1 /\ epIdx = 1
           /\ apiData = pre.apiData
           /\ endpointId = 0 /\ resolvedEndpoint = NoEndpoint
           /\ probeResult = NoProbeResult /\ baseline = null
           /\ validationResult = NoValidation /\ baselineResult = NoBaselineResult
           /\ validations = <<>> /\ apiSummaries = <<>>
           /\ apiPassed = 0 /\ apiFailed = 0 /\ totalPassed = 0 /\ totalFailed = 0
           /\ results = NoResults
           /\ variables = table

SpecResolve == InitResolve /\ [][ProbeStep]_vars

(***************************************************************************)
(* resolveEndpointVariables over fixtures of any shape: nested objects and *)
(* arrays, and the values js-yaml loads that are not strings.              *)
(***************************************************************************)
TrueValue == [t |-> "boolean", str |-> "true", json |-> "true"]
NaNValue == [t |-> "number", str |-> "NaN", json |-> "null"]
InfinityValue == [t |-> "number", str |-> "Infinity", json |-> "null"]
Birthday == DateValue("2001-12-14T00:00:00.000Z")

WideFixtures ==
    {[body |-> <<[k |-> "author", v |-> Text(<<Placeholder("userId")>>)],
                 [k |-> "age", v |-> Num7],
                 [k |-> "tags", v |-> ArrayValue(<<Text(<<Lit("a")>>),
                                                   Text(<<Placeholder("userId")>>),
                                                   Num7>>)],
                 [k |-> "meta", v |-> ObjectValue(
                      <<[k |-> "owner", v |-> Text(<<Lit("u"), Placeholder("userId")>>)],
                        [k |-> "active", v |-> TrueValue],
                        [k |-> "none", v |-> [t |-> "null", str |-> "null",
                                              json |-> "null"]]>>)]>>,
      query |-> <<[k |-> "page", v |-> Num7],
                  [k |-> "as", v |-> Text(<<Placeholder("userId")>>)]>>],
     [body |-> <<[k |-> "name", v |-> Text(<<Lit("Ada")>>)],
                 [k |-> "born", v |-> Birthday]>>,
      query |-> <<>>],
     [body |-> <<[k |-> "ratio", v |-> NaNValue]>>,
      query |-> <<>>],
     [body |-> <<[k |-> "limits", v |-> ArrayValue(<<Num7, InfinityValue>>)]>>,
      query |-> <<[k |-> "since", v |-> Birthday]>>]}

WideFixtureEndpoints ==
    {[path |-> p, method |-> "POST", expected_status |-> 200,
      expected_fields |-> <<"id">>,
      stash |-> <<[varName |-> "postId", path |-> "id"]>>,
      request |-> [fixture |-> f]] :
        p \in {<<Lit("/posts")>>, <<Lit("/users/"), Placeholder("userId"), Lit("/posts")>>},
        f \in WideFixtures}

InitFixture ==
    \E endpoint \in WideFixtureEndpoints, table \in WideTables :
        LET api == Api("posts", FALSE, <<endpoint>>)
            pre == PreHandleEndpoints(<<>>, <<>>, api)
        IN /\ apis = pre.apis /\ endpoints = pre.endpoints
           /\ probes = <<>> /\ baselines = <<>> /\ baselineExpected = <<>>
           /\ probesHasErrorMessage = TRUE
           /\ clock = 0
           /\ required_successful_probes = 1
           /\ pc = "endpoint"
           /\ resources = [apis |-> <<api>>] /\ apiIdx = 1 /\ epIdx = 1
           /\ apiData = pre.apiData
           /\ endpointId = 0 /\ resolvedEndpoint = NoEndpoint
           /\ probeResult = NoProbeResult /\ baseline = null
           /\ validationResult = NoValidation /\ baselineResult = NoBaselineResult
           /\ validations = <<>> /\ apiSummaries = <<>>
           /\ apiPassed = 0 /\ apiFailed = 0 /\ totalPassed = 0 /\ totalFailed = 0
           /\ results = NoResults
           /\ variables = table

SpecFixture == InitFixture /\ [][ProbeStep]_vars

(***************************************************************************)
(* Properties of validateProbeResponse.                                    *)
(***************************************************************************)
\* the state right after validateProbeResponse returned
Validated == pc = "stash"

\* the baseline rows of the endpoint under validation, read from the table
EndpointBaselines ==
    {b \in Range(baselines) : b.api_id = apiData.apiId /\ b.endpoint_id = endpointId}

\* the probe rows pinned by those baselines
PinnedProbes == {GetProbeById(probes, b.probe_id) : b \in EndpointBaselines}

\* C1: when a baseline exists for the (API, endpoint) and the expectation-level
\* check passed, the final pass flag is the baseline-level pass flag.
Thm_C1 ==
    (Validated /\ EndpointBaselines # {} /\ validationResult.probeValidation.passed)
    => /\ validationResult.baselineComparison.exists
       /\ validationResult.passed = validationResult.baselineComparison.passed

\* C1 witness: expectation passed, the baseline check failed, the result failed
Witness_C1 ==
    /\ Validated /\ EndpointBaselines # {}
    /\ validationResult.probeValidation.passed
    /\ ~validationResult.baselineComparison.passed
    /\ ~validationResult.passed

\* C2: when no baseline exists, or the expectation-level check failed, the final
\* pass flag is the expectation-level pass flag; a baseline never turns an
\* expectation-level failure into a pass.
Thm_C2 ==
    (Validated /\ (EndpointBaselines = {} \/ ~validationResult.probeValidation.passed))
    => validationResult.passed = validationResult.probeValidation.passed

\* C2 witness: a baseline whose status and type match the probe, an expectation
\* failure, and a failed result
Witness_C2 ==
    /\ Validated
    /\ \E p \in PinnedProbes : /\ p.status_code = probeResult.statusCode
                               /\ p.response_type = probeResult.responseType
    /\ ~validationResult.probeValidation.passed
    /\ ~validationResult.passed

\* C7: the expectation-level pass flag is true exactly when the observed status
\* equals the expected status and new_fields and removed_fields are both empty.
Thm_C7 ==
    Validated =>
        (validationResult.probeValidation.passed
         <=> /\ probeResult.statusCode = resolvedEndpoint.expected_status
             /\ validationResult.probeValidation.new_fields = <<>>
             /\ validationResult.probeValidation.removed_fields = <<>>)

\* C7 witness: the status matches, a field is new, the expectation check failed
Witness_C7 ==
    /\ Validated
    /\ probeResult.statusCode = resolvedEndpoint.expected_status
    /\ validationResult.probeValidation.new_fields # <<>>
    /\ validationResult.probeValidation.removed_fields = <<>>
    /\ ~validationResult.probeValidation.passed

\* C8: new_fields is the observed field set minus the expected one and
\* removed_fields the expected field set minus the observed one.
Thm_C8 ==
    Validated =>
        /\ Range(validationResult.probeValidation.new_fields)
             = Range(probeResult.fields) \ Range(resolvedEndpoint.expected_fields)
        /\ Range(validationResult.probeValidation.removed_fields)
             = Range(resolvedEndpoint.expected_fields) \ Range(probeResult.fields)

\* C8 witness: expected {id, name}, observed {id, name, email}
Witness_C8 ==
    /\ Validated
    /\ Range(resolvedEndpoint.expected_fields) = {"id", "name"}
    /\ Range(probeResult.fields) = {"id", "name", "email"}
    /\ validationResult.probeValidation.new_fields = <<"email">>
    /\ validationResult.probeValidation.removed_fields = <<>>
    /\ ~validationResult.probeValidation.passed

\* C9: an evaluated baseline check passes exactly when status code and
\* content-type equal those of the pinned probe; the latency-bucket comparison is
\* recorded and changes neither the baseline-level nor the final pass flag.
Thm_C9 ==
    (Validated /\ validationResult.baselineComparison.exists)
    => \E p \in PinnedProbes :
          /\ validationResult.baselineComparison.passed
               <=> (p.status_code = probeResult.statusCode
                    /\ p.response_type = probeResult.responseType)
          /\ validationResult.baselineComparison.latencyBucket
               <=> (p.latency_bucket = probeResult.latencyBucket)
          /\ validationResult.passed = validationResult.baselineComparison.passed

\* C9 witness: the latency bucket differs from the pinned probe's and the
\* baseline check and the final result pass
Witness_C9 ==
    /\ Validated /\ validationResult.baselineComparison.exists
    /\ ~validationResult.baselineComparison.latencyBucket
    /\ validationResult.baselineComparison.passed
    /\ validationResult.passed

(***************************************************************************)
(* Properties of checkAndCreateBaseline within runs.                       *)
(***************************************************************************)
\* the probe rows of the endpoint of the current step
EndpointProbes == {r \in Range(probes) : r.endpoint_id = endpointId}

\* its n most recently persisted rows (rowids grow with every insert)
MostRecent(n) ==
    {r \in EndpointProbes : Cardinality({q \in EndpointProbes : q.id > r.id}) < n}

\* the endpoint has at least n probes and its n most recent ones all passed
MostRecentAllPassed(n) ==
    /\ Cardinality(EndpointProbes) >= n
    /\ \A r \in MostRecent(n) : r.passed

\* at most one baseline row per (API, endpoint)
OneBaselinePerEndpoint(rows) ==
    \A i, j \in DOMAIN rows :
        (rows[i].api_id = rows[j].api_id /\ rows[i].endpoint_id = rows[j].endpoint_id)
        => i = j

\* C3: without a baseline, checkAndCreateBaseline creates one only when the
\* endpoint has at least N probes and its N most recent probes all passed;
\* otherwise nothing is created and null is returned.
Cex_C3 ==
    [][(pc = "baseline" /\ EndpointBaselines = {}
        /\ ~MostRecentAllPassed(required_successful_probes))
       => (/\ ~baselineResult'.created
           /\ baselineResult'.baseline = null
           /\ baselines' = baselines)]_vars

\* C4: there is at most one baseline per (API, endpoint), and a call made when
\* a baseline exists returns that baseline and inserts nothing.
Thm_C4 ==
    [][/\ OneBaselinePerEndpoint(baselines')
       /\ (pc = "baseline" /\ EndpointBaselines # {})
          => (/\ baselines' = baselines
              /\ ~baselineResult'.created
              /\ baselineResult'.baseline \in EndpointBaselines)]_vars

\* C4 witness: a call returned the baseline that already existed
Witness_C4 ==
    /\ pc = "endpoint"
    /\ ~baselineResult.created
    /\ baselineResult.baseline # null
    /\ baselineResult.baseline \in Range(baselines)

\* C5: once a baseline exists for an (API, endpoint), the latest baseline of
\* that endpoint stays the same row, pinning the same probe, whatever the runs do.
Thm_C5 ==
    [][\A b \in Range(baselines) :
          /\ GetLatestBaseline(baselines', b.api_id, b.endpoint_id) = {b}
          /\ GetBaseline(probes', baselines', b.api_id, b.endpoint_id)
               = {GetProbeById(probes, b.probe_id)}]_vars

\* C5 witness: a baseline and a later, failed probe of the same endpoint
Witness_C5 ==
    \E b \in Range(baselines) : \E r \in Range(probes) :
        /\ r.endpoint_id = b.endpoint_id
        /\ r.id > b.probe_id
        /\ ~r.passed
        /\ GetLatestBaseline(baselines, b.api_id, b.endpoint_id) = {b}

\* C6: without a baseline, when the N most recent probes of the endpoint all
\* passed, the call creates the baseline and pins the probe persisted last.
Cex_C6 ==
    [][(pc = "baseline" /\ EndpointBaselines = {}
        /\ MostRecentAllPassed(required_successful_probes))
       => (/\ baselineResult'.created
           /\ baselineResult'.baseline.probe_id = Len(probes)
           /\ baselines' = Append(baselines, baselineResult'.baseline))]_vars

\* the result of a probe attempt that the target refused
RefusedResult == probeResult.statusCode = 0 /\ probeResult.latencyBucket = "error"

\* C10: a refused connection gives a validation with isConnectionError = true and
\* passed = false, with neither the expectation nor the baseline check computed.
Cex_C10 ==
    (Validated /\ RefusedResult)
    => /\ validationResult.isConnectionError
       /\ ~validationResult.passed
       /\ ~validationResult.hasBaselineComparison
       /\ validationResult.probeValidation.new_fields = <<>>
       /\ validationResult.probeValidation.removed_fields = <<>>

(***************************************************************************)
(* Properties of the endpoint step of startTask.                           *)
(***************************************************************************)
\* the result of a probe attempt that exceeded its deadline
TimeoutResult == probeResult.error_message = "Request timeout"

\* C11: a probe that exceeds its deadline is returned as a Timeout outcome
\* (status 0, latency bucket timeout); its validation is not a connection
\* error, goes through the expectation check and fails on the status; and the
\* probe is persisted with passed = false and latency bucket timeout.
Cex_C11 ==
    [][/\ (TimeoutResult /\ pc = "stash")
          => /\ probeResult.statusCode = 0
             /\ probeResult.latencyBucket = "timeout"
             /\ ~validationResult.isConnectionError
             /\ validationResult.hasBaselineComparison
             /\ validationResult.probeValidation.statusCode = 0
             /\ ~validationResult.probeValidation.passed
             /\ ~validationResult.passed
       /\ (TimeoutResult /\ pc = "persist")
          => /\ Len(probes') = Len(probes) + 1
             /\ SubSeq(probes', 1, Len(probes)) = probes
             /\ ~probes'[Len(probes')].passed
             /\ probes'[Len(probes')].latency_bucket = "timeout"]_vars

(***************************************************************************)
(* Properties of the variable table within runs.                           *)
(***************************************************************************)
\* the text of a string with placeholders
RECURSIVE Render(_)
Render(pieces) ==
    IF pieces = <<>> THEN ""
    ELSE (IF Head(pieces).ph THEN "{{" \o Head(pieces).s \o "}}" ELSE Head(pieces).s)
         \o Render(Tail(pieces))

\* the declared string with every {{v}} of the table replaced by String(table[v])
Substituted(declared, table) ==
    [i \in DOMAIN declared |->
        IF declared[i].ph /\ declared[i].s \in DOMAIN table
        THEN Lit(table[declared[i].s].str)
        ELSE declared[i]]

\* the resolved string is the declared one as seen through the table
Sees(declared, resolved, table) ==
    Render(resolved) = Render(Substituted(declared, table))

\* the names the stash spec of the endpoint of the current step assigns
StashNames == {pair.varName : pair \in Range(CurrentEndpoint.stash)}

\* C12: within a run, a variable stashed by an endpoint whose validation passed
\* keeps its value until an endpoint re-stashes it, across endpoints and APIs,
\* and the resolution of every later endpoint replaces every {{v}} in its path,
\* query fixture and body fixture by the string form of that value.
Thm_C12 ==
    [][/\ (pc = "stash" /\ validationResult.passed)
          => \A pair \in Range(CurrentEndpoint.stash) :
             \A i \in DOMAIN probeResult.data.props :
                probeResult.data.props[i].k = pair.path
                => /\ pair.varName \in DOMAIN variables'
                   /\ variables'[pair.varName] = probeResult.data.props[i].v
       /\ (pc # "menu")
          => \A v \in DOMAIN variables :
                \/ pc = "stash" /\ v \in StashNames
                \/ v \in DOMAIN variables' /\ variables'[v] = variables[v]
       /\ (pc = "endpoint" /\ pc' = "validate")
          => LET declared == CurrentEndpoint
                 resolved == resolvedEndpoint'
             IN /\ Sees(declared.path, resolved.path, variables)
                /\ \A i \in DOMAIN declared.request.fixture.body :
                      Sees(declared.request.fixture.body[i].v.pieces,
                           resolved.request.fixture.body[i].v.pieces, variables)
                /\ \A i \in DOMAIN declared.request.fixture.query :
                      Sees(declared.request.fixture.query[i].v.pieces,
                           resolved.request.fixture.query[i].v.pieces, variables)]_vars

\* C12 witness: the endpoint of a later API, behind a disabled one, is resolved
\* with the id stashed by the first endpoint of the first API
Witness_C12 ==
    /\ pc = "validate" /\ apiIdx = 3
    /\ variables = [n \in {"userId"} |-> Num42]
    /\ resolvedEndpoint.request.fixture.body
          = <<[k |-> "author", v |-> Text(<<Lit("42")>>)]>>
    /\ resolvedEndpoint.request.fixture.query
          = <<[k |-> "as", v |-> Text(<<Lit("u42")>>)]>>

\* C13: within a run the variable table changes only in the stash step of an
\* endpoint that declares a stash spec and whose validation passed; a failed
\* validation leaves the table as it was.
Thm_C13 ==
    [][(pc # "menu" /\ variables' # variables)
       => (pc = "stash" /\ validationResult.passed /\ StashNames # {})]_vars

\* C13 witness: the expectation check passed, the baseline check failed, the
\* response carries the id the stash spec asks for, and after the stash step
\* userId still has its earlier value
Witness_C13 ==
    /\ pc = "persist"
    /\ validationResult.probeValidation.passed
    /\ validationResult.baselineComparison.exists
    /\ ~validationResult.passed
    /\ CurrentEndpoint.stash = <<[varName |-> "userId", path |-> "id"]>>
    /\ probeResult.data = JsonObject(<<[k |-> "id", v |-> Num42]>>)
    /\ variables = [n \in {"userId"} |-> Num7]

\* the top-level keys of a response: the keys of an object, the indices of an array
TopLevelKeys(data) ==
    IF data.type = "object" THEN Range(ObjectKeys(data.props))
    ELSE IF data.type = "array"
    THEN {(<<"0", "1", "2", "3", "4", "5", "6", "7", "8", "9">>)[i] :
             i \in 1..Len(data.items)}
    ELSE {}

\* the variable v has the same value, or is as absent, in both tables
SameVariable(v, before, after) ==
    IF v \in DOMAIN before
    THEN v \in DOMAIN after /\ after[v] = before[v]
    ELSE v \notin DOMAIN after

\* C14: the stash step keeps the prior value (or absence) of every variable
\* whose field path is not a top-level key of the response data, and of every
\* variable the stash spec does not name.
Cex_C14 ==
    [][pc = "stash"
       => /\ \A pair \in Range(CurrentEndpoint.stash) :
                pair.path \notin TopLevelKeys(probeResult.data)
                => SameVariable(pair.varName, variables, variables')
          /\ \A v \in (DOMAIN variables \cup DOMAIN variables') \ StashNames :
                SameVariable(v, variables, variables')]_vars

(***************************************************************************)
(* Properties of resolveEndpointVariables.                                 *)
(***************************************************************************)
\* C15: in the resolved path, query fixture and body fixture every {{name}}
\* whose name is in the variable table is replaced by the string form of its
\* value, and every {{name}} whose name is not in the table is left as it is.
Cex_C15 ==
    [][(pc = "endpoint" /\ pc' = "validate")
       => LET declared == CurrentEndpoint
              resolved == resolvedEndpoint'
          IN /\ Sees(declared.path, resolved.path, variables)
             /\ DOMAIN resolved.request.fixture.body
                  = DOMAIN declared.request.fixture.body
             /\ DOMAIN resolved.request.fixture.query
                  = DOMAIN declared.request.fixture.query
             /\ \A i \in DOMAIN declared.request.fixture.body :
                   /\ resolved.request.fixture.body[i].k
                        = declared.request.fixture.body[i].k
                   /\ Sees(declared.request.fixture.body[i].v.pieces,
                           resolved.request.fixture.body[i].v.pieces, variables)
             /\ \A i \in DOMAIN declared.request.fixture.query :
                   /\ resolved.request.fixture.query[i].k
                        = declared.request.fixture.query[i].k
                   /\ Sees(declared.request.fixture.query[i].v.pieces,
                           resolved.request.fixture.query[i].v.pieces, variables)]_vars

(***************************************************************************)
(* Properties of the loops of startTask.                                   *)
(***************************************************************************)
\* the endpoint step is about to raise: insertProbeResult cannot be prepared
InsertRaises == pc = "persist" /\ ~probesHasErrorMessage

\* C16: an exception raised while an endpoint is processed is caught at the
\* endpoint boundary: the failed counters of the API and of the run grow by
\* exactly one, nothing else is counted, and the loop goes on with the next
\* endpoint, so that at the end of an API's loop every endpoint is counted.
Thm_C16 ==
    [][/\ InsertRaises
          => /\ apiFailed' = apiFailed + 1
             /\ totalFailed' = totalFailed + 1
             /\ apiPassed' = apiPassed /\ totalPassed' = totalPassed
             /\ validations' = validations
             /\ pc' = "endpoint"
             /\ epIdx' = epIdx + 1
             /\ apiIdx' = apiIdx /\ resources' = resources
       /\ (pc = "endpoint" /\ epIdx > Len(CurrentApi.endpoints))
          => apiPassed + apiFailed = Len(CurrentApi.endpoints)]_vars

\* C16 witness: both endpoints of the first API raised and were counted, and
\* the endpoint of a later API has been probed
Witness_C16 ==
    /\ pc = "validate" /\ apiIdx = 3
    /\ ~probesHasErrorMessage
    /\ totalFailed = 2 /\ totalPassed = 0
    /\ validations = <<>>
    /\ Len(apiSummaries) = 1 /\ apiSummaries[1].failed = 2

\* C17: an exception raised by the setup of an API is caught at the API
\* boundary and the API is skipped: the raising call and the catch write no
\* probe and no baseline, count nothing and add no summary, the endpoint loop
\* of the API is not entered, and the run goes on with the next API.
Thm_C17 ==
    [][/\ (pc' = "apiError")
          => /\ pc = "api" /\ ~CurrentApi.disabled
             /\ probes' = probes /\ baselines' = baselines
             /\ countVars' = countVars
             /\ apiIdx' = apiIdx
       /\ (pc = "apiError")
          => /\ pc' = "api" /\ apiIdx' = apiIdx + 1
             /\ resources' = resources
             /\ probes' = probes /\ baselines' = baselines
             /\ validations' = validations /\ apiSummaries' = apiSummaries
             /\ totalPassed' = totalPassed /\ totalFailed' = totalFailed]_vars

\* C17 witness: the setup of the first API raised; it has no summary, no probe
\* and no count, and the endpoint of a later API has been probed
Witness_C17 ==
    /\ pc = "validate" /\ apiIdx = 3
    /\ apiSummaries = <<>> /\ validations = <<>>
    /\ totalPassed = 0 /\ totalFailed = 0
    /\ probes = <<>> /\ baselines = <<>> /\ baselineExpected = <<>>
    /\ apis = <<[id |-> 1, name |-> "posts", base_url |-> "http://localhost:3001"]>>

\* the number of endpoints the configuration declares for the API of that name
DeclaredEndpoints(name) ==
    Len(resources.apis[CHOOSE i \in DOMAIN resources.apis :
                          resources.apis[i].name = name].endpoints)

RECURSIVE SumOf(_, _)
SumOf(summaries, field) ==
    IF summaries = <<>> THEN 0
    ELSE Head(summaries)[field] + SumOf(Tail(summaries), field)

\* startTask has returned its result: every API that got a summary has all its
\* declared endpoints counted as passed or failed, and the totals add up
RunCompleted ==
    /\ pc = "menu"
    /\ results.total_apis = Len(resources.apis)
    /\ results.apis = apiSummaries
    /\ \A i \in DOMAIN results.apis :
          /\ results.apis[i].passed + results.apis[i].failed
               = DeclaredEndpoints(results.apis[i].api_name)
          /\ results.apis[i].total_endpoints
               = DeclaredEndpoints(results.apis[i].api_name)
    /\ results.total_passed = SumOf(results.apis, "passed")
    /\ results.total_failed = SumOf(results.apis, "failed")
    /\ results.total_endpoints = results.total_passed + results.total_failed

\* the setup of the API of that name succeeded: its endpoint loop has begun
SetUp(name) == pc = "endpoint" /\ epIdx = 1 /\ CurrentApi.name = name

\* the API of that name has its summary, with every declared endpoint counted
Summarised(name) ==
    \E i \in DOMAIN apiSummaries :
        /\ apiSummaries[i].api_name = name
        /\ apiSummaries[i].total_endpoints = DeclaredEndpoints(name)

\* C18: whatever the configuration and the outcome of each probe, a run of
\* startTask ends with its result, and every API whose setup succeeded has all
\* its endpoints processed and counted on the way.
Thm_C18 ==
    /\ <>RunCompleted
    /\ \A name \in {"users", "legacy", "posts"} : SetUp(name) ~> Summarised(name)

\* C18 witness: a finished run in which the insert of every probe raised and
\* was caught, and the three endpoints of the two enabled APIs were all
\* processed and counted as failed
Witness_C18 ==
    /\ RunCompleted
    /\ ~probesHasErrorMessage
    /\ Len(results.apis) = 2
    /\ results.total_passed = 0 /\ results.total_failed = 3

\* C19: an endpoint step in which a request was issued persists exactly one
\* probe row, no other step touches the probes table, a step inserts at most
\* one baseline, and the rows already in the probes table stay as they are.
Cex_C19 ==
    [][/\ (pc = "persist" => Len(probes') = Len(probes) + 1)
       /\ (pc # "persist" => probes' = probes)
       /\ Len(probes') >= Len(probes)
       /\ SubSeq(probes', 1, Len(probes)) = probes
       /\ Len(baselines') <= Len(baselines) + 1]_vars

\* the rows of the apis table with that name
ApiRowsNamed(apiRows, name) == {i \in DOMAIN apiRows : apiRows[i].name = name}

\* the rows of the endpoints table with that (api_id, path, method)
EndpointRowsOf(endpointRows, apiId, path, method) ==
    {i \in DOMAIN endpointRows : /\ endpointRows[i].api_id = apiId
                                 /\ endpointRows[i].path = path
                                 /\ endpointRows[i].method = method}

\* the API and every endpoint it declares have their records
Registered(apiRows, endpointRows, api) ==
    \E i \in ApiRowsNamed(apiRows, api.name) :
       \A e \in DOMAIN api.endpoints :
          EndpointRowsOf(endpointRows, apiRows[i].id, api.endpoints[e].path,
                         api.endpoints[e].method) # {}

\* the setup of the current API returns in this step
SetupReturns == pc = "api" /\ pc' = "endpoint"

\* C20: the apis table never holds two rows of one name, the endpoints table
\* never two rows of one (api_id, path, method); a setup over an API whose
\* records all exist writes nothing, and the lookup a setup returns maps each
\* declared (method, path) to the id of the one record of that endpoint, which
\* is the id it had before when the record existed.
Thm_C20 ==
    [][/\ \A i, j \in DOMAIN apis' : apis'[i].name = apis'[j].name => i = j
       /\ \A i, j \in DOMAIN endpoints' :
             (/\ endpoints'[i].api_id = endpoints'[j].api_id
              /\ endpoints'[i].path = endpoints'[j].path
              /\ endpoints'[i].method = endpoints'[j].method) => i = j
       /\ ~SetupReturns => (apis' = apis /\ endpoints' = endpoints)
       /\ SetupReturns =>
             /\ Registered(apis, endpoints, CurrentApi)
                   => (apis' = apis /\ endpoints' = endpoints)
             /\ \A i \in ApiRowsNamed(apis, CurrentApi.name) :
                   apiData'.apiId = apis[i].id
             /\ \E i \in ApiRowsNamed(apis', CurrentApi.name) :
                   apiData'.apiId = apis'[i].id
             /\ \A e \in DOMAIN CurrentApi.endpoints :
                   LET endpoint == CurrentApi.endpoints[e]
                       key == <<endpoint.method, endpoint.path>>
                   IN /\ key \in DOMAIN apiData'.endpoints
                      /\ \E i \in EndpointRowsOf(endpoints', apiData'.apiId,
                                                 endpoint.path, endpoint.method) :
                            apiData'.endpoints[key] = endpoints'[i].id
                      /\ \A i \in EndpointRowsOf(endpoints, apiData'.apiId,
                                                 endpoint.path, endpoint.method) :
                            apiData'.endpoints[key] = endpoints[i].id]_vars

\* C20 witness: a run that declares the API users with one endpoint, after a
\* run that declared it with two, has set the API up: the tables still hold one
\* API and two endpoints, and the lookup returns the id of the existing record
Witness_C20 ==
    /\ pc = "endpoint" /\ apiIdx = 1 /\ epIdx = 1
    /\ resources.apis = <<Api("users", FALSE, <<GetUsers>>)>>
    /\ Len(apis) = 1 /\ Len(endpoints) = 2 /\ Len(probes) = 2
    /\ apiData.apiId = 1
    /\ apiData.endpoints[<<"GET", <<Lit("/users")>>>>] = 1

\* C21: every probe row references an existing API and an existing endpoint of
\* that API, and every baseline row pins an existing probe of the baseline's
\* own API and endpoint.
Thm_C21 ==
    /\ \A p \in DOMAIN probes :
          /\ \E a \in DOMAIN apis : apis[a].id = probes[p].api_id
          /\ \E e \in DOMAIN endpoints :
                /\ endpoints[e].id = probes[p].endpoint_id
                /\ endpoints[e].api_id = probes[p].api_id
    /\ \A b \in DOMAIN baselines :
          \E p \in DOMAIN probes :
             /\ probes[p].id = baselines[b].probe_id
             /\ probes[p].api_id = baselines[b].api_id
             /\ probes[p].endpoint_id = baselines[b].endpoint_id

\* C21 witness: probes of two APIs are persisted and a baseline pins the probe
\* of an endpoint of the second API
Witness_C21 ==
    /\ \E p, q \in DOMAIN probes : probes[p].api_id = 1 /\ probes[q].api_id = 2
    /\ \E b \in DOMAIN baselines : baselines[b].api_id = 2

\* the loop over the APIs stands at a disabled API
AtDisabledApi == pc = "api" /\ apiIdx <= Len(resources.apis) /\ CurrentApi.disabled

\* the names of the APIs the run declares as disabled
DisabledNames == {resources.apis[i].name : i \in {j \in DOMAIN resources.apis :
                                                      resources.apis[j].disabled}}

\* C22: a disabled API is skipped: the step that meets it only moves on to the
\* next API, writing no table, no variable, no count, no validation and no
\* summary; no step of the endpoint loop ever runs for a disabled API, and no
\* API record, validation or summary carries its name.
Thm_C22 ==
    [][/\ AtDisabledApi
          => /\ pc' = "api" /\ apiIdx' = apiIdx + 1
             /\ resources' = resources
             /\ apis' = apis /\ endpoints' = endpoints
             /\ probes' = probes /\ baselines' = baselines
             /\ variables' = variables
             /\ countVars' = countVars
       /\ pc \in {"apiError", "endpoint", "validate", "stash", "persist", "baseline"}
          => ~CurrentApi.disabled
       /\ \A a \in DOMAIN apis' : apis'[a].name \notin DisabledNames'
       /\ \A v \in DOMAIN validations' : validations'[v].api_name \notin DisabledNames'
       /\ \A s \in DOMAIN apiSummaries' :
             apiSummaries'[s].api_name \notin DisabledNames']_vars

\* C22 witness: the disabled API legacy was passed over without a record or a
\* summary, and the endpoint of the API declared after it has been probed
Witness_C22 ==
    /\ pc = "validate" /\ apiIdx = 3
    /\ resources.apis[2].disabled
    /\ Len(apiSummaries) = 1
    /\ Len(apis) = 2 /\ apis[2].name = "posts"
    /\ probeResult.api_name = "posts"

\* the position of startTask in the declaration: the API, and the endpoint of
\* that API while its endpoint loop runs
InEndpointLoop == pc \in {"endpoint", "validate", "stash", "persist", "baseline"}
EndpointPos == IF InEndpointLoop THEN epIdx ELSE 0

\* a request is issued in this step
RequestIssued == pc = "endpoint" /\ pc' = "validate"

\* C23: a run walks the declaration in order, one endpoint step at a time: the
\* position never moves back, a request is issued only between endpoint steps
\* and is the request of the declared endpoint at the position, the step of an
\* endpoint ends by moving to the next endpoint, the validation of a step is
\* appended behind those of the earlier steps, and the result lists the
\* validations in that order.
Thm_C23 ==
    [][/\ (pc # "menu" /\ pc' # "menu")
          => /\ resources' = resources
             /\ \/ apiIdx' > apiIdx
                \/ apiIdx' = apiIdx /\ EndpointPos' >= EndpointPos
       /\ RequestIssued
          => /\ apiIdx' = apiIdx /\ epIdx' = epIdx
             /\ probeResult'.api_name = resources.apis[apiIdx].name
             /\ probeResult'.method = resources.apis[apiIdx].endpoints[epIdx].method
             /\ probeResult'.endpoint = resolvedEndpoint'.path
             /\ resolvedEndpoint' =
                   ResolveEndpointVariables(resources.apis[apiIdx].endpoints[epIdx],
                                            variables)
       /\ (pc \in {"validate", "stash", "persist", "baseline"})
          => /\ probeResult' = probeResult /\ resolvedEndpoint' = resolvedEndpoint
             /\ apiIdx' = apiIdx
             /\ \/ pc' \in {"stash", "persist", "baseline"} /\ epIdx' = epIdx
                \/ pc' = "endpoint" /\ epIdx' = epIdx + 1
       /\ validations' # validations
          => \/ pc = "menu" /\ validations' = <<>>
             \/ /\ pc = "baseline"
                /\ validations' = Append(validations, validationResult)
                /\ validationResult.api_name = resources.apis[apiIdx].name
                /\ validationResult.method
                      = resources.apis[apiIdx].endpoints[epIdx].method
                /\ validationResult.endpoint = probeResult.endpoint
       /\ (pc # "menu" /\ pc' = "menu") => results'.validations = validations]_vars

\* C23 witness: a finished run over two APIs whose result lists the three
\* validations in the order of the declaration
Witness_C23 ==
    /\ pc = "menu"
    /\ Len(results.validations) = 3
    /\ results.validations[1].api_name = "users"
    /\ results.validations[1].endpoint = <<Lit("/me")>>
    /\ results.validations[2].api_name = "users"
    /\ results.validations[2].endpoint = <<Lit("/users/42")>>
    /\ results.validations[3].api_name = "posts"

\* C24: in a run on an empty database the variable table is written only in an
\* endpoint step whose probe row has already been persisted (one more probe than
\* validations, the last one of this endpoint), and when the insert of every
\* probe raises, the table stays as the run started it.
Cex_C24 ==
    [][/\ variables' # variables
          => /\ Len(probes) = Len(validations) + 1
             /\ probes[Len(probes)].endpoint_id = endpointId
       /\ ~probesHasErrorMessage => variables' = <<>>]_vars

\* the probe result carries the message of a fault raised by the request
CarriesRaisedFault(result) == Truthy(result.error)

\* C25: a fault of the request that is neither a refused connection nor an
\* exceeded deadline never becomes a probe outcome: no endpoint step goes on to
\* its validation with the message of a raised fault in its probe result, and
\* no such result is persisted or reported as a validation.
Cex_C25 ==
    [][/\ RequestIssued => ~CarriesRaisedFault(probeResult')
       /\ Len(probes') > Len(probes) => ~CarriesRaisedFault(probeResult)
       /\ (pc = "baseline" /\ validations' # validations)
          => ~CarriesRaisedFault(probeResult)]_vars

\* C26: a probe row is persisted with the latency bucket timeout only when the
\* probe of its endpoint step exceeded its deadline.
Cex_C26 ==
    [][(/\ Len(probes') = Len(probes) + 1
        /\ probes'[Len(probes')].latency_bucket = "timeout")
          => TimeoutResult]_vars

\* the messages of the Timeout and of the ConnectionError outcome
OutcomeMessages == {"Request timeout", "Connection refused - API unavailable"}

\* C27: the message of a Timeout or ConnectionError outcome is the
\* errorMessage of the validation result of the endpoint step and the
\* error_message of the probe row the step persists.
Cex_C27 ==
    [][/\ (pc = "validate" /\ probeResult.error_message \in OutcomeMessages)
          => validationResult'.errorMessage
                = [t |-> "string", str |-> probeResult.error_message]
       /\ (/\ pc = "persist" /\ probeResult.error_message \in OutcomeMessages
           /\ Len(probes') = Len(probes) + 1)
          => probes'[Len(probes')].error_message = probeResult.error_message]_vars

\* C28: on a database with the schema of initializeSchema the insert of a
\* probe succeeds: the row is appended, no failure is counted for the insert,
\* and an endpoint whose validation passed goes on to be counted as passed.
Cex_C28 ==
    [][(pc = "persist" /\ ~probesHasErrorMessage)
          => /\ Len(probes') = Len(probes) + 1
             /\ probes'[Len(probes')].passed = validationResult.passed
             /\ apiFailed' = apiFailed /\ totalFailed' = totalFailed
             /\ pc' = "baseline"]_vars

\* the resolved value has the structure of the declared one: a string is still
\* a string, an array has the same length and an object the same keys in the
\* same order, with the same structure inside, and any other value is kept
RECURSIVE SameStructure(_, _)
SameStructure(declared, resolved) ==
    CASE declared.t = "string" -> resolved.t = "string"
      [] declared.t = "array" ->
           /\ resolved.t = "array"
           /\ DOMAIN resolved.items = DOMAIN declared.items
           /\ \A i \in DOMAIN declared.items :
                 SameStructure(declared.items[i], resolved.items[i])
      [] declared.t = "object" ->
           /\ resolved.t = "object"
           /\ DOMAIN resolved.props = DOMAIN declared.props
           /\ \A i \in DOMAIN declared.props :
                 /\ resolved.props[i].k = declared.props[i].k
                 /\ SameStructure(declared.props[i].v, resolved.props[i].v)
      [] OTHER -> resolved = declared

\* C29: the resolution of an endpoint leaves the declared configuration and
\* the variable table as they were, and the resolved endpoint has the method,
\* the expectations and the stash of the declared one and fixtures of the same
\* structure, every value that is not a string kept as declared.
Cex_C29 ==
    [][RequestIssued
       => LET declared == resources.apis[apiIdx].endpoints[epIdx]
              resolved == resolvedEndpoint'
          IN /\ resources' = resources
             /\ variables' = variables
             /\ resolved.method = declared.method
             /\ resolved.expected_status = declared.expected_status
             /\ resolved.expected_fields = declared.expected_fields
             /\ resolved.stash = declared.stash
             /\ SameStructure(ObjectValue(declared.request.fixture.body),
                              ObjectValue(resolved.request.fixture.body))
             /\ SameStructure(ObjectValue(declared.request.fixture.query),
                              ObjectValue(resolved.request.fixture.query))]_vars

\* the names the run may have stashed so far: those declared in the stash of
\* an endpoint of an enabled API at or before the position of the run
StashedSoFar ==
    UNION {UNION {{resources.apis[a].endpoints[e].stash[i].varName :
                      i \in DOMAIN resources.apis[a].endpoints[e].stash} :
                  e \in {f \in DOMAIN resources.apis[a].endpoints :
                            a < apiIdx \/ (a = apiIdx /\ f <= EndpointPos)}} :
           a \in {c \in DOMAIN resources.apis : ~resources.apis[c].disabled}}

Cex_C31 ==
    [][/\ \A i \in DOMAIN endpoints :
             /\ i \in DOMAIN endpoints'
             /\ endpoints'[i].id = endpoints[i].id
             /\ endpoints'[i].api_id = endpoints[i].api_id
             /\ endpoints'[i].path = endpoints[i].path
             /\ endpoints'[i].method = endpoints[i].method
       /\ SetupReturns
          => \A e \in DOMAIN CurrentApi.endpoints :
                \A i \in EndpointRowsOf(endpoints', apiData'.apiId,
                                        CurrentApi.endpoints[e].path,
                                        CurrentApi.endpoints[e].method) :
                   /\ endpoints'[i].expected_status
                        = CurrentApi.endpoints[e].expected_status
                   /\ endpoints'[i].expected_fields
                        = CurrentApi.endpoints[e].expected_fields]_vars


\* the endpoint of the current step has a baseline row
HasBaselineRow ==
    \E b \in Range(baselines) :
        b.api_id = apiData.apiId /\ b.endpoint_id = endpointId

\* C32: in every validation result that carries a baseline-check detail, the
\* detail's exists flag is true exactly when the endpoint has a baseline at
\* validation time, and a detail that was not evaluated has its match flags and
\* its pass flag all false.
Cex_C32 ==
    [][pc = "validate" /\ pc' = "stash" /\ validationResult'.hasBaselineComparison
       => /\ validationResult'.baselineComparison.exists <=> HasBaselineRow
          /\ ~validationResult'.baselineComparison.exists
             => /\ ~validationResult'.baselineComparison.statusCodeMatch
                /\ ~validationResult'.baselineComparison.responseType
                /\ ~validationResult'.baselineComparison.latencyBucket
                /\ ~validationResult'.baselineComparison.passed]_vars


\* C33: in the endpoint step in which a baseline is created, the validation
\* result was computed while the endpoint had no baseline (no pinned probe was
\* read, the baseline detail says exists = false, the final pass flag is the pass
\* flag of the expectation check); a validation reads a pinned probe exactly when
\* the endpoint has a baseline row, so the next probe is the first to consult it.
Thm_C33 ==
    [][/\ pc = "baseline" /\ baselineResult'.created
          => /\ ~HasBaselineRow
             /\ baseline = null
             /\ ~validationResult.baselineComparison.exists
             /\ validationResult.passed = validationResult.probeValidation.passed
             /\ validations' = Append(validations, validationResult)
             /\ baselines' = Append(baselines, baselineResult'.baseline)
       /\ pc = "validate" /\ pc' = "stash"
          => (baseline' # null <=> HasBaselineRow)]_vars

\* a step that has just created the baseline of its endpoint, after a validation
\* that passed without one
Witness_C33 ==
    /\ pc = "endpoint"
    /\ baselineResult.created
    /\ baseline = null
    /\ validationResult.passed
    /\ ~validationResult.baselineComparison.exists
    /\ \E b \in Range(baselines) :
          b.api_id = apiData.apiId /\ b.endpoint_id = endpointId


\* C34: every baseline row pins a probe row that passed and whose status code is
\* the expected status declared by the run that created the baseline; a probe of
\* a timeout, of a refused connection or of an expectation mismatch is never
\* pinned.
Cex_C34 ==
    \A i \in DOMAIN baselines :
        LET pinned == GetProbeById(probes, baselines[i].probe_id)
        IN /\ pinned # null
           /\ pinned.passed
           /\ pinned.status_code = baselineExpected[i]
           /\ pinned.status_code # 0
           /\ pinned.latency_bucket \notin {"timeout", "error"}


\* the baseline of the current step's endpoint was created by a run that declared
\* the expected status the current run declares
SameExpectedAsBaselineRun ==
    \A i \in DOMAIN baselines :
        baselines[i].api_id = apiData.apiId /\ baselines[i].endpoint_id = endpointId
        => baselineExpected[i] = resolvedEndpoint.expected_status

\* C35: while an endpoint declares the expected status of the run that created
\* its baseline, every evaluated baseline check has statusCodeMatch = true, and
\* one that fails does so on the content type.
Cex_C35 ==
    [][/\ pc = "validate" /\ pc' = "stash"
       /\ validationResult'.baselineComparison.exists
       /\ SameExpectedAsBaselineRun
       => /\ validationResult'.baselineComparison.statusCodeMatch
          /\ ~validationResult'.baselineComparison.passed
             => ~validationResult'.baselineComparison.responseType]_vars


\* the number of validation results with that pass flag
CountValidations(list, flag) ==
    Cardinality({i \in DOMAIN list : list[i].passed = flag})

\* the number of endpoint steps of the finished run that raised an exception:
\* the insert of the probe raises in every step of a summarised API when the
\* probes table lacks the column, and nothing raises otherwise
RaisedSteps ==
    IF probesHasErrorMessage THEN 0
    ELSE Cardinality(UNION {{<<i, e>> : e \in 1..DeclaredEndpoints(results.apis[i].api_name)} :
                               i \in DOMAIN results.apis})

\* C36: in the result of a run, total_endpoints = total_passed + total_failed,
\* the totals are the sums of the per-API counts, every per-API total_endpoints
\* is passed + failed, total_passed is the number of validation results that
\* passed, and total_failed is the number of validation results that failed
\* plus the number of endpoint steps that raised an exception.
Thm_C36 ==
    pc = "menu"
    => /\ results.total_endpoints = results.total_passed + results.total_failed
       /\ results.total_passed = SumOf(results.apis, "passed")
       /\ results.total_failed = SumOf(results.apis, "failed")
       /\ \A i \in DOMAIN results.apis :
             results.apis[i].total_endpoints
               = results.apis[i].passed + results.apis[i].failed
       /\ results.total_passed = CountValidations(results.validations, TRUE)
       /\ results.total_failed
            = CountValidations(results.validations, FALSE) + RaisedSteps

\* a finished run over two enabled APIs with passed and failed validations
Witness_C36 ==
    /\ pc = "menu"
    /\ Len(results.apis) = 2
    /\ results.total_passed = 2
    /\ results.total_failed = 1
    /\ Len(results.validations) = 3


\* C37: every probe row a step persists holds the final pass flag of the
\* validation result the same step appends and the observed status code (0 when
\* no status was observed), so the history read by checkAndCreateBaseline holds
\* final results.
Thm_C37 ==
    [][/\ pc = "persist" /\ probes' # probes
          => /\ probes' = Append(probes, probes'[Len(probes')])
             /\ probes'[Len(probes')].passed = validationResult.passed
             /\ probes'[Len(probes')].status_code
                  = (IF probeResult.statusCode = undefinedStatus THEN 0
                     ELSE probeResult.statusCode)
       /\ pc = "baseline" /\ pc' = "endpoint"
          => /\ validations' = Append(validations, validationResult)
             /\ probes[Len(probes)].passed = validationResult.passed
             /\ \A allProbes \in GetProbesByEndpoint(probes, endpointId) :
                   \E i \in DOMAIN allProbes :
                      /\ allProbes[i].id = Len(probes)
                      /\ allProbes[i].passed = validationResult.passed]_vars

\* a step whose probe met the expectations, failed against the baseline, and is
\* stored and read back as failed
Witness_C37 ==
    /\ pc = "baseline"
    /\ validationResult.probeValidation.passed
    /\ validationResult.baselineComparison.exists
    /\ ~validationResult.passed
    /\ ~probes[Len(probes)].passed
    /\ probes[Len(probes)].endpoint_id = endpointId


\* the body is an object with an own field of that name
HasField(data, key) ==
    data.type = "object" /\ \E i \in DOMAIN data.props : data.props[i].k = key

\* the message the body offers: its message field if present, otherwise its
\* error field, as it is when a string and serialized otherwise, otherwise none
BodyMessage(data) ==
    IF HasField(data, "message")
    THEN [t |-> PropValue(data, "message").t, str |-> PropValue(data, "message").str]
    ELSE IF HasField(data, "error")
    THEN [t |-> "string",
          str |-> IF PropValue(data, "error").t = "string"
                  THEN PropValue(data, "error").str
                  ELSE PropValue(data, "error").json]
    ELSE NoMessage

\* C38: when the probe result carries no transport error, a failed final result
\* has as error message the body's message field if present, otherwise its
\* error field (as it is when a string, serialized otherwise), otherwise none,
\* and a passed final result has no message derived from the body.
Cex_C38 ==
    [][pc = "validate" /\ pc' = "stash" /\ ~Truthy(probeResult.error)
       => validationResult'.errorMessage
            = (IF validationResult'.passed THEN NoMessage
               ELSE BodyMessage(probeResult.data))]_vars

\* the keys of the elements of an array body that are objects
ObjectElementKeys(data) ==
    UNION {Range(ObjectKeys(data.items[i].props)) :
              i \in {j \in DOMAIN data.items : data.items[j].type = "object"}}

\* C39: the field set of a JSON array response is the union of the top-level
\* keys of its object elements, that of a JSON object response is the object's
\* top-level keys, and that of a JSON scalar or of a response that is not JSON
\* is empty; a response with an empty field set passes the field check exactly
\* when the expected field list is empty.
Cex_C39 ==
    [][/\ pc = "endpoint" /\ pc' = "validate" /\ probeResult'.responseType # "error"
          => /\ IsJsonContentType(probeResult'.responseType)
                /\ probeResult'.data.type = "array"
                => Range(probeResult'.fields) = ObjectElementKeys(probeResult'.data)
             /\ IsJsonContentType(probeResult'.responseType)
                /\ probeResult'.data.type = "object"
                => probeResult'.fields = ObjectKeys(probeResult'.data.props)
             /\ ~IsJsonContentType(probeResult'.responseType)
                \/ probeResult'.data.type \notin {"array", "object"}
                => probeResult'.fields = <<>>
       /\ pc = "validate" /\ pc' = "stash" /\ probeResult.responseType # "error"
          /\ probeResult.fields = <<>>
          => (/\ validationResult'.probeValidation.new_fields = <<>>
              /\ validationResult'.probeValidation.removed_fields = <<>>)
             <=> resolvedEndpoint.expected_fields = <<>>]_vars


\* the rows of a table that belong to none of those APIs
RowsOutside(rows, apiIds) ==
    KeepAt(rows, {i \in DOMAIN rows : rows[i].api_id \notin apiIds})

\* every row of the table before is still in its place afterwards
RowsKept(before, after) ==
    \A i \in DOMAIN before : i \in DOMAIN after /\ after[i] = before[i]

\* C40: after deleteApi no endpoint, probe or baseline row references the
\* deleted API and no baseline pins a deleted probe, while the rows of the other
\* APIs are unchanged; and no step of a run deletes a row of any table.
Thm_C40 ==
    [][/\ pc' = "deleted" /\ pc = "menu"
          => \E apiName \in DeletedNames :
                LET apiIds == {a.id : a \in {r \in Range(apis) : r.name = apiName}}
                IN /\ \A a \in Range(apis') : a.name # apiName /\ a.id \notin apiIds
                   /\ \A e \in Range(endpoints') : e.api_id \notin apiIds
                   /\ \A r \in Range(probes') : r.api_id \notin apiIds
                   /\ \A b \in Range(baselines') : b.api_id \notin apiIds
                   /\ \A b \in Range(baselines') :
                         /\ \E r \in Range(probes') : r.id = b.probe_id
                         /\ \E e \in Range(endpoints') : e.id = b.endpoint_id
                   /\ \A r \in Range(probes') :
                         \E e \in Range(endpoints') : e.id = r.endpoint_id
                   /\ apis' = KeepAt(apis, {i \in DOMAIN apis : apis[i].name # apiName})
                   /\ endpoints' = RowsOutside(endpoints, apiIds)
                   /\ probes' = RowsOutside(probes, apiIds)
                   /\ baselines' = RowsOutside(baselines, apiIds)
       /\ pc' # "deleted"
          => /\ RowsKept(apis, apis')
             /\ RowsKept(endpoints, endpoints')
             /\ RowsKept(probes, probes')
             /\ RowsKept(baselines, baselines')]_vars

\* the API users was deleted after a run over users and posts: its two
\* endpoints, their probes and their baselines are gone, those of posts remain
Witness_C40 ==
    /\ pc = "deleted"
    /\ Len(apis) = 1 /\ apis[1].name = "posts"
    /\ Len(endpoints) = 1 /\ endpoints[1].id = 3
    /\ Len(probes) = 1 /\ probes[1].id = 3
    /\ Len(baselines) = 1 /\ baselines[1].probe_id = 3

====
